---------------------------- MODULE Spec2Model ----------------------------
(***************************************************************************)
(* A model of the X11 event processor of winit                             *)
(* (src/platform_impl/linux/x11/event_processor.rs).                       *)
(*                                                                         *)
(* Every handler of EventProcessor is one action.  The events a handler    *)
(* delivers to the application callback are collected, in order, in `out`; *)
(* the requests it sends to the X server or the drag-and-drop peer are     *)
(* collected, in order, in `wire`.  Both hold the effects of the last      *)
(* handler only.                                                           *)
(*                                                                         *)
(* Option<T> is modelled as a sequence of length 0 (None) or 1 (Some).     *)
(***************************************************************************)
EXTENDS Integers, Sequences, FiniteSets, TLC

None == <<>>
Some(x) == <<x>>
IsSome(o) == o # <<>>
Unwrap(o) == o[1]

(***************************************************************************)
(* Bounds and input domains                                                *)
(***************************************************************************)
\* Most convert-selection requests whose SelectionNotify is still in flight.
MaxInflight == 2
\* Largest timestamp carried by an XdndPosition message.
MaxTime == 1

\* Native handles of this process's windows.
Windows == {1, 2}
\* Native handles of the drag sources (peer windows).
Sources == {11, 12}
\* Window-relative positions returned by translate_coords.
Coords == {0, 1}

\* Atoms.  TextUriList is the one supported drag-and-drop type.
TextUriList == "text/uri-list"
TextPlain == "text/plain"
NoAtom == "None"
\* Inline type lists of XdndEnter: always data[2..4], three atoms.
InlineTypeLists ==
    { <<TextUriList, NoAtom, NoAtom>>, <<TextPlain, TextUriList, NoAtom>>,
      <<TextPlain, NoAtom, NoAtom>>, <<NoAtom, NoAtom, NoAtom>> }
\* Outcomes of Dnd::get_type_list (the XdndTypeList property of the source):
\* Err, or Ok(list) with more than three atoms.
GetTypeListResults ==
    { [ok |-> FALSE, list |-> <<>>],
      [ok |-> TRUE, list |-> <<TextPlain, "text/html", "image/png", TextUriList>>],
      [ok |-> TRUE, list |-> <<TextPlain, "text/html", "image/png", "image/jpeg">>] }
\* Path lists a selection payload parses to.
PathLists == { <<"/a">>, <<"/a", "/b">> }
\* Outcomes of Dnd::read_data followed by Dnd::parse_data.
ReadOutcomes ==
    { [read |-> FALSE, parse |-> FALSE, paths |-> <<>>],
      [read |-> TRUE, parse |-> FALSE, paths |-> <<>>] }
    \cup { [read |-> TRUE, parse |-> TRUE, paths |-> p] : p \in PathLists }

\* x11rb::CURRENT_TIME
CURRENT_TIME == 0
\* The XDND version is carried in the top byte of data[1] of XdndEnter.
VersionShift == 24
\* data[1] of XdndEnter: version 0 or 5, bit 0 = "more than three types".
EnterFlags == { 0, 5 * 2^VersionShift, 5 * 2^VersionShift + 1, 1 }

(***************************************************************************)
(* State                                                                   *)
(***************************************************************************)
VARIABLES
    dnd,        \* EventProcessor::dnd: version, type_list, source_window,
                \* result, dragging, position
    inflight,   \* windows with a convert-selection request not yet answered
    out,        \* events delivered to the application by the last handler
    wire,       \* requests sent to the server / peer by the last handler
    handled,    \* the handler that ran last
    outcome,    \* how the last handler ended
    panicked,   \* an `expect` failed: the event loop is gone
    sess,       \* history: the XDND session the peer is in
    rejected,   \* history: an XdndPosition was rejected since the last XdndEnter
    nEntered,   \* history: DragEntered events since the last Dnd::reset
    nLeave,     \* history: XdndLeave messages handled in a row (at most 2)
    opened,     \* history: windows with a DragEntered not yet followed by
                \* a DragLeft or a DragDropped
    active_window,          \* EventProcessor::active_window
    modifiers,              \* EventProcessor::modifiers, the last sent value
    xkb,                    \* xkb_context: None without keymap, else Some(state)
    xfiltered_modifiers,    \* EventProcessor::xfiltered_modifiers, front first
    held_key_press,         \* EventProcessor::held_key_press
    is_composing,           \* EventProcessor::is_composing
    ime_allowed,            \* windows the input method is allowed for
    windows,                \* target.windows: the registry of weak window handles
    devices,                \* EventProcessor::devices
    args,                   \* history: the arguments of the last direct call
    lastDelivered,          \* history: value of the last ModifiersChanged delivered
    num_touch,              \* EventProcessor::num_touch
    first_touch,            \* EventProcessor::first_touch
    hist,                   \* history: what the claims about sequences of events need
    events_loop,            \* EventsLoop (the older event loop): devices, cursor_pos
    drop_handler,           \* windows: FileDropHandlerData
    panic_info              \* appkit: PanicInfo::inner

dndVars == <<dnd, inflight, sess, rejected, nEntered, nLeave, opened>>
kbdVars == <<active_window, modifiers, xkb, xfiltered_modifiers, held_key_press,
             is_composing, ime_allowed, windows, devices, args, lastDelivered,
             num_touch, first_touch, hist, events_loop, drop_handler, panic_info>>
platformVars == <<drop_handler, panic_info>>
ioVars == <<out, wire, handled, outcome, panicked>>
vars == <<dndVars, kbdVars, ioVars>>

\* Result<Vec<PathBuf>, DndDataParseError>
ResultOk(paths) == [ok |-> TRUE, paths |-> paths]
ResultErr == [ok |-> FALSE, paths |-> <<>>]

DndNew ==
    [ version |-> None, type_list |-> None, source_window |-> None,
      result |-> None, dragging |-> FALSE, position |-> 0 ]

\* Dnd::reset
DndReset_KeepResult(d) ==
    [ d EXCEPT !.version = None, !.type_list = None, !.source_window = None,
               !.dragging = FALSE ]
DndReset(d) ==
    [ d EXCEPT !.version = None, !.type_list = None, !.source_window = None,
               !.result = None, !.dragging = FALSE ]

Contains(list, a) == \E i \in 1..Len(list) : list[i] = a

\* WindowEvent values
DragEntered(w, paths, pos) ==
    [ev |-> "DragEntered", window |-> w, paths |-> paths, position |-> pos]
DragMoved(w, pos) == [ev |-> "DragMoved", window |-> w, position |-> pos]
DragDropped(w, paths, pos) ==
    [ev |-> "DragDropped", window |-> w, paths |-> paths, position |-> pos]
DragLeft(w, pos) == [ev |-> "DragLeft", window |-> w, position |-> pos]

\* Requests
XdndStatus(w, src, state) ==
    [req |-> "XdndStatus", window |-> w, target |-> src, state |-> state]
XdndFinished(w, src, state) ==
    [req |-> "XdndFinished", window |-> w, target |-> src, state |-> state]
ConvertSelection(w, time) ==
    [req |-> "ConvertSelection", window |-> w, time |-> time]

\* ModifiersState (winit_core::keyboard): a set of these flags.
ModifierNames == {"shift", "ctrl", "alt", "logo"}

\* The XKB modifiers of the keymap (mods_indices), each with the bit it has
\* in the state field of a core key event (ModMask).
CoreBit ==
    [ shift |-> 0, caps |-> 1, ctrl |-> 2, alt |-> 3,
      num |-> 4, mod3 |-> 5, logo |-> 6, mod5 |-> 7 ]
XkbMods == DOMAIN CoreBit

\* XkbState::update_modifiers: the six arguments replace the state.
XkbUpdate(depressed, latched, locked, base_group, latched_group, locked_group) ==
    [ depressed |-> depressed, latched |-> latched, locked |-> locked,
      group |-> <<base_group, latched_group, locked_group>> ]
\* A state that holds no modifier.
XkbNew == XkbUpdate({}, {}, {}, 0, 0, 0)
\* XkbState::modifiers, converted into ModifiersState: the flags that are
\* active in the effective modifiers.
XkbModifiers(st) == (st.depressed \cup st.latched \cup st.locked) \cap ModifierNames

\* An entry of target.windows: a weak handle whose window is alive or was
\* dropped by its owner, with the window's has_focus flag.
WindowNew ==
    [ alive |-> TRUE, has_focus |-> FALSE, cursor_pos |-> None,
      \* the shared state configure_notify reads and writes
      size |-> None, inner_position |-> None, inner_position_rel_parent |-> None,
      frame_extents |-> None, position |-> None, dpi_adjusted |-> None,
      scale_factor |-> 1 ]

\* The devices of the initial enumeration: the master pointer and the master
\* keyboard, attached to each other.
ScrollAxesNew ==
    << <<2, [increment |-> 60, orientation |-> "Horizontal", position |-> 0]>>,
       <<3, [increment |-> 120, orientation |-> "Vertical", position |-> 0]>> >>
DevicesNew ==
    (2 :> [attachment |-> 3, scroll_axes |-> <<>>])
    @@ (3 :> [attachment |-> 2, scroll_axes |-> <<>>])
    @@ (4 :> [attachment |-> 2, scroll_axes |-> ScrollAxesNew])

\* The history before any event: no key was pressed or released.
HistNew ==
    [ down |-> {}, up |-> {}, undisturbed |-> {}, pressed |-> <<>>,
      touching |-> {}, lone |-> None,
      wheel |-> (2 :> 0) @@ (3 :> 0), loop_wheel |-> (2 :> 0) @@ (3 :> 0),
      committed |-> FALSE,
      flagged |-> DOMAIN DevicesNew, loop_flagged |-> DOMAIN DevicesNew,
      issued |-> "no", signalled |-> "no", after |-> 0,
      hovered |-> "none", held |-> (1 :> 1) @@ (2 :> 0), panics |-> <<>>,
      gone |-> {} ]

\* The older event loop (EventsLoop) after construction: its devices, the
\* cursor position and the configuration it keeps for every window, the
\* flag `interrupted`, the events the server has queued for the connection,
\* and where the thread in run_forever (pc) and a thread in interrupt (ipc)
\* stand.
EventsLoopNew ==
    [ devices |-> DevicesNew, cursor_pos |-> [w \in Windows |-> None],
      config |-> [w \in Windows |-> None],
      interrupted |-> FALSE, pending |-> <<>>, pc |-> "idle", ipc |-> "idle" ]

\* windows: FileDropHandler::new; `destroyed` counts how often the data
\* was destroyed, `releasing` holds for each thread the count its Release
\* call read and has not yet compared with 0.
DROPEFFECT_NONE == 0
DROPEFFECT_COPY == 1
FileDropHandlerNew ==
    [ refcount |-> 1, cursor_effect |-> DROPEFFECT_NONE, valid |-> FALSE,
      destroyed |-> 0, releasing |-> (1 :> None) @@ (2 :> None) ]

\* Every field but the last-sent modifiers.
InitFields ==
    /\ dnd = DndNew
    /\ inflight = <<>>
    /\ out = <<>>
    /\ wire = <<>>
    /\ handled = "none"
    /\ outcome = "none"
    /\ panicked = FALSE
    /\ sess = "none"
    /\ rejected = FALSE
    /\ nEntered = 0
    /\ nLeave = 0
    /\ opened = {}
    /\ active_window = None
    /\ xkb = Some(XkbNew)
    /\ xfiltered_modifiers = <<>>
    /\ held_key_press = None
    /\ is_composing = FALSE
    /\ ime_allowed = {}
    /\ windows = [w \in Windows |-> WindowNew]
    /\ devices = DevicesNew
    /\ args = <<>>
    /\ lastDelivered = None
    /\ num_touch = 0
    /\ first_touch = None
    /\ hist = HistNew
    /\ events_loop = EventsLoopNew
    /\ drop_handler = FileDropHandlerNew
    /\ panic_info = None

\* The processor after construction: no modifiers were sent yet.
Init == InitFields /\ modifiers = {}


(***************************************************************************)
(* Drag and drop: EventProcessor::client_message, ::selection_notify       *)
(***************************************************************************)
\* let version = flags >> 24;
EnterVersion(flags) == flags \div 2^VersionShift
\* flags & (c_long::MAX - 1): every bit but bit 0 (flags is not negative)
ClearBit0(flags) == (flags \div 2) * 2
\* let has_more_types = flags - (flags & (c_long::MAX - 1)) == 1;
HasMoreTypes(flags) == flags - ClearBit0(flags) = 1

\* type_list.contains(&atoms[TextUriList]), false without a type list
Accepted(d) ==
    IF IsSome(d.type_list) THEN Contains(Unwrap(d.type_list), TextUriList)
    ELSE FALSE

Cap(n, max) == IF n > max THEN max ELSE n

\* XdndPosition, rejected: self.dnd.reset()
PositionRejected_NoReset(d) == d
PositionRejected(d) == DndReset(d)

\* XdndPosition, accepted: convert_selection, then send_status(Accepted)
PositionAccepted_StatusOnly(window, source_window, time) ==
    << XdndStatus(window, source_window, "Accepted") >>
PositionAccepted(window, source_window, time) ==
    << ConvertSelection(window, time),
       XdndStatus(window, source_window, "Accepted") >>

\* XdndDrop: the state sent with XdndFinished
DropState_FromResult(d) ==
    IF IsSome(d.result) /\ Unwrap(d.result).ok THEN "Accepted" ELSE "Rejected"
DropState(d) == IF IsSome(d.source_window) THEN "Accepted" ELSE "Rejected"

\* XdndDrop: the events delivered
DropEvents_NoSourceCheck(d, window) ==
    IF IsSome(d.result) /\ Unwrap(d.result).ok
    THEN <<DragDropped(window, Unwrap(d.result).paths, d.position)>>
    ELSE <<>>
DropEvents(d, window) ==
    IF IsSome(d.source_window) /\ IsSome(d.result) /\ Unwrap(d.result).ok
    THEN <<DragDropped(window, Unwrap(d.result).paths, d.position)>>
    ELSE <<>>

\* XdndLeave: the events delivered
LeaveEvents_Always(d, window) == <<DragLeft(window, d.position)>>
LeaveEvents(d, window) ==
    IF d.dragging THEN <<DragLeft(window, d.position)>> ELSE <<>>

\* selection_notify: the event of a successful parse
ParsedEvent_AlwaysEntered(d, window, paths) ==
    DragEntered(window, paths, d.position)
ParsedEvent(d, window, paths) ==
    IF d.dragging THEN DragMoved(window, d.position)
    ELSE DragEntered(window, paths, d.position)

\* The windows with an open DragEntered after the events `evs` were
\* delivered in order: DragEntered opens, DragLeft and DragDropped close.
RECURSIVE OpenedAfter(_, _)
OpenedAfter(o, evs) ==
    IF evs = <<>> THEN o
    ELSE LET e == Head(evs)
         IN OpenedAfter(IF e.ev = "DragEntered" THEN o \cup {e.window}
                        ELSE IF e.ev \in {"DragLeft", "DragDropped"}
                        THEN o \ {e.window}
                        ELSE o,
                        Tail(evs))

\* client_message, message_type == XdndEnter
XdndEnter(source_window, flags, inline, more_types) ==
    /\ ~panicked
    /\ UNCHANGED kbdVars
    /\ LET d1 == [dnd EXCEPT !.version = Some(EnterVersion(flags))]
           d2 == IF ~HasMoreTypes(flags)
                 THEN [d1 EXCEPT !.type_list = Some(inline)]
                 ELSE IF more_types.ok
                      THEN [d1 EXCEPT !.type_list = Some(more_types.list)]
                      ELSE d1
       IN /\ dnd' = d2
          /\ sess' = IF Accepted(d2) THEN "uri" ELSE "nouri"
    /\ rejected' = FALSE
    /\ out' = <<>>
    /\ wire' = <<>>
    /\ handled' = "XdndEnter"
    /\ outcome' = "done"
    /\ nLeave' = 0
    /\ UNCHANGED <<inflight, nEntered, panicked>>
    /\ opened' = OpenedAfter(opened, out')

\* client_message, message_type == XdndPosition
\* `coords` is what translate_coords answers, `fail` the call that fails.
XdndPosition(window, source_window, time, coords, fail) ==
    /\ ~panicked
    /\ UNCHANGED kbdVars
    /\ handled' = "XdndPosition"
    /\ out' = <<>>
    /\ opened' = OpenedAfter(opened, out')
    /\ nLeave' = 0
    /\ IF fail = "translate_coords"
       THEN \* .expect("Failed to translate window coordinates")
            /\ panicked' = TRUE
            /\ outcome' = "panic"
            /\ wire' = <<>>
            /\ UNCHANGED <<dnd, inflight, sess, rejected, nEntered>>
       ELSE LET d1 == [dnd EXCEPT !.position = coords]
                version == IF IsSome(d1.version) THEN Unwrap(d1.version) ELSE 5
            IN IF ~Accepted(d1)
               THEN IF fail = "send_status"
                    THEN \* .expect("Failed to send `XdndStatus` message.")
                         /\ dnd' = d1
                         /\ panicked' = TRUE
                         /\ outcome' = "panic"
                         /\ wire' = <<>>
                         /\ UNCHANGED <<inflight, sess, rejected, nEntered>>
                    ELSE /\ wire' = <<XdndStatus(window, source_window, "Rejected")>>
                         /\ dnd' = PositionRejected(d1)
                         /\ rejected' = TRUE
                         /\ nEntered' = 0
                         /\ outcome' = "rejected"
                         /\ UNCHANGED <<inflight, sess, panicked>>
               ELSE /\ Len(inflight) < MaxInflight
                    /\ dnd' = [d1 EXCEPT !.source_window = Some(source_window)]
                    /\ inflight' = Append(inflight, window)
                    /\ LET t == IF version = 0 THEN CURRENT_TIME ELSE time
                       IN IF fail = "send_status"
                          THEN /\ wire' = <<ConvertSelection(window, t)>>
                               /\ panicked' = TRUE
                               /\ outcome' = "panic"
                          ELSE /\ wire' = PositionAccepted(window, source_window, t)
                               /\ outcome' = "accepted"
                               /\ UNCHANGED panicked
                    /\ UNCHANGED <<sess, rejected, nEntered>>

\* client_message, message_type == XdndDrop
XdndDrop(window, msg_source, fail) ==
    /\ ~panicked
    /\ UNCHANGED kbdVars
    /\ handled' = "XdndDrop"
    /\ nLeave' = 0
    /\ LET source_window == IF IsSome(dnd.source_window)
                            THEN Unwrap(dnd.source_window) ELSE msg_source
           state == DropState(dnd)
       IN /\ out' = DropEvents(dnd, window)
          /\ IF fail
             THEN \* .expect("Failed to send `XdndFinished` message.")
                  /\ wire' = <<>>
                  /\ panicked' = TRUE
                  /\ outcome' = "panic"
                  /\ UNCHANGED <<dnd, sess, rejected, nEntered>>
             ELSE /\ wire' = <<XdndFinished(window, source_window, state)>>
                  /\ dnd' = DndReset(dnd)
                  /\ sess' = "none"
                  /\ nEntered' = 0
                  /\ outcome' = "done"
                  /\ UNCHANGED <<rejected, panicked>>
    /\ UNCHANGED inflight
    /\ opened' = OpenedAfter(opened, out')

\* client_message, message_type == XdndLeave
XdndLeave(window) ==
    /\ ~panicked
    /\ UNCHANGED kbdVars
    /\ handled' = "XdndLeave"
    /\ nLeave' = Cap(nLeave + 1, 2)
    /\ out' = LeaveEvents(dnd, window)
    /\ dnd' = DndReset(dnd)
    /\ wire' = <<>>
    /\ sess' = "none"
    /\ nEntered' = 0
    /\ outcome' = "done"
    /\ UNCHANGED <<inflight, rejected, panicked>>
    /\ opened' = OpenedAfter(opened, out')

\* selection_notify.  The event answers the oldest outstanding
\* convert-selection request; `is_xdnd` says whether its property is
\* XdndSelection, `r` is what read_data and parse_data make of the payload.
SelectionNotify(is_xdnd, r) ==
    /\ ~panicked
    /\ UNCHANGED kbdVars
    /\ inflight # <<>>
    /\ inflight' = Tail(inflight)
    /\ handled' = "SelectionNotify"
    /\ nLeave' = 0
    /\ wire' = <<>>
    /\ LET window == Head(inflight)
       IN IF ~is_xdnd
          THEN /\ out' = <<>>
               /\ outcome' = "ignored"
               /\ UNCHANGED <<dnd, nEntered>>
          ELSE IF ~r.read
          THEN /\ dnd' = [dnd EXCEPT !.result = None]
               /\ out' = <<>>
               /\ outcome' = "read_failed"
               /\ UNCHANGED nEntered
          ELSE IF ~r.parse
          THEN /\ dnd' = [dnd EXCEPT !.result = Some(ResultErr)]
               /\ out' = <<>>
               /\ outcome' = "parse_failed"
               /\ UNCHANGED nEntered
          ELSE /\ out' = <<ParsedEvent(dnd, window, r.paths)>>
               /\ dnd' = [dnd EXCEPT !.dragging = TRUE,
                                     !.result = Some(ResultOk(r.paths))]
               /\ nEntered' = IF dnd.dragging THEN nEntered ELSE Cap(nEntered + 1, 2)
               /\ outcome' = "parsed"
    /\ UNCHANGED <<sess, rejected, panicked>>
    /\ opened' = OpenedAfter(opened, out')

NextDnd ==
    \/ \E s \in Sources, f \in EnterFlags,
          l \in InlineTypeLists, m \in GetTypeListResults :
          XdndEnter(s, f, l, m)
    \/ \E w \in Windows, s \in Sources, t \in 1..MaxTime, c \in Coords,
          fail \in {"none", "translate_coords", "send_status"} :
          XdndPosition(w, s, t, c, fail)
    \/ \E w \in Windows, s \in Sources, fail \in BOOLEAN : XdndDrop(w, s, fail)
    \/ \E w \in Windows : XdndLeave(w)
    \/ \E x \in BOOLEAN, r \in ReadOutcomes : SelectionNotify(x, r)

SpecDnd == Init /\ [][NextDnd]_vars

(***************************************************************************)
(* Drag and drop: properties                                               *)
(***************************************************************************)
\* The Dnd state after Dnd::reset.
Idle(d) ==
    /\ d.version = None
    /\ d.type_list = None
    /\ d.source_window = None
    /\ d.result = None
    /\ d.dragging = FALSE

CachedOk(d) == IsSome(d.result) /\ Unwrap(d.result).ok

Emits(kinds) == \E i \in 1..Len(out) : out[i].ev \in kinds

\* C1 (as claimed): while the peer is in a session whose recorded type list
\* lacks text/uri-list, every XdndPosition is answered Rejected and no
\* DragEntered or DragMoved is delivered.
C1_NoDragInUnsupportedSession ==
    sess = "nouri" =>
        /\ ~Emits({"DragEntered", "DragMoved"})
        /\ (handled = "XdndPosition" /\ ~panicked) =>
               /\ Len(wire) = 1
               /\ wire[1].req = "XdndStatus"
               /\ wire[1].state = "Rejected"

\* C2 (as claimed): right after an XdndEnter the cached result is empty,
\* dragging is false and the source window is unset.
C2_EnterResetsOldSession ==
    handled = "XdndEnter" =>
        /\ dnd.result = None
        /\ dnd.dragging = FALSE
        /\ dnd.source_window = None

\* C3 (as claimed): XdndDrop delivers DragDropped and sends Finished/Accepted
\* iff a successfully parsed path list is cached, sends Finished/Rejected and
\* delivers nothing otherwise, and resets the session.
C3_DropAcceptsIffCached ==
    [][ (handled' = "XdndDrop" /\ ~panicked') =>
            /\ Idle(dnd')
            /\ Len(wire') = 1
            /\ wire'[1].req = "XdndFinished"
            /\ IF CachedOk(dnd)
               THEN /\ wire'[1].state = "Accepted"
                    /\ Len(out') = 1
                    /\ out'[1].ev = "DragDropped"
               ELSE /\ wire'[1].state = "Rejected"
                    /\ out' = <<>>
      ]_vars

\* C3 (amended): XdndDrop sends Finished/Accepted iff a source window is
\* recorded (a Position of the session was accepted) and Finished/Rejected
\* otherwise; it delivers DragDropped, with the cached paths and position,
\* iff a source window is recorded and a successfully parsed path list is
\* cached; in every case the handler ends by resetting the Dnd state it
\* found.
C3_DropAcceptsIffSource ==
    [][ (handled' = "XdndDrop" /\ ~panicked') =>
            /\ dnd' = DndReset(dnd)
            /\ Len(wire') = 1
            /\ wire'[1].req = "XdndFinished"
            /\ wire'[1].state =
                   IF IsSome(dnd.source_window) THEN "Accepted" ELSE "Rejected"
            /\ IsSome(dnd.source_window) =>
                   wire'[1].target = Unwrap(dnd.source_window)
            /\ IF IsSome(dnd.source_window) /\ CachedOk(dnd)
               THEN /\ Len(out') = 1
                    /\ out'[1].ev = "DragDropped"
                    /\ out'[1].paths = Unwrap(dnd.result).paths
                    /\ out'[1].position = dnd.position
               ELSE out' = <<>>
      ]_vars

\* An accepted drop with nothing delivered: Finished/Accepted is sent
\* although no parsed path list was cached.
C3_Witness ==
    /\ handled = "XdndDrop"
    /\ ~panicked
    /\ wire[1].state = "Accepted"
    /\ out = <<>>

C5_LeaveTwice ==
    [][ handled' = "XdndLeave" =>
            /\ Idle(dnd')
            /\ IF dnd.dragging
               THEN Len(out') = 1 /\ out'[1].ev = "DragLeft"
               ELSE out' = <<>>
            /\ handled = "XdndLeave" => (out' = <<>> /\ dnd' = dnd)
      ]_vars

\* Two XdndLeave in a row, the first of which delivered DragLeft, cannot be
\* told from the state alone; the second one is counted by nLeave.
C5_Witness == nLeave = 2 /\ handled = "XdndLeave" /\ out = <<>>

\* C6: a rejected XdndPosition leaves the Dnd state reset, and until the next
\* XdndEnter no XdndPosition or XdndDrop delivers an event or leaves the Dnd
\* state other than reset.
C6_RejectedStaysIdle ==
    /\ []((handled = "XdndPosition" /\ outcome = "rejected") => Idle(dnd))
    /\ [][ (rejected /\ handled' \in {"XdndPosition", "XdndDrop"} /\ ~panicked') =>
               (out' = <<>> /\ Idle(dnd'))
         ]_vars

C6_Witness ==
    /\ rejected
    /\ handled = "XdndDrop"
    /\ ~panicked
    /\ inflight # <<>>

\* C7: an XdndPosition handled while the recorded type list holds
\* text/uri-list records the source window, issues one convert-selection
\* request and then one XdndStatus Accepted, and delivers no event; drag
\* events are delivered by selection_notify, XdndDrop and XdndLeave only.
C7_AcceptedPosition ==
    /\ [][ (handled' = "XdndPosition" /\ Accepted(dnd) /\ ~panicked') =>
               /\ IsSome(dnd'.source_window)
               /\ Len(wire') = 2
               /\ wire'[1].req = "ConvertSelection"
               /\ wire'[2].req = "XdndStatus"
               /\ wire'[2].state = "Accepted"
               /\ wire'[2].target = Unwrap(dnd'.source_window)
               /\ inflight' = Append(inflight, wire'[1].window)
               /\ out' = <<>>
         ]_vars
    /\ [](Emits({"DragEntered", "DragMoved"}) => handled = "SelectionNotify")

\* A second accepted XdndPosition while the first request is unanswered.
C7_Witness ==
    /\ handled = "XdndPosition"
    /\ outcome = "accepted"
    /\ Len(inflight) = 2

C36_DragEventsBracketed ==
    [][ \A i \in 1..Len(out') :
            out'[i].ev = "DragEntered" =>
                out'[i].window \notin OpenedAfter(opened, SubSeq(out', 1, i - 1))
      ]_vars
\* C8 (as claimed): a SelectionNotify whose payload cannot be read or parsed
\* delivers no event and leaves the Dnd state reset.
C8_BadSelectionResets ==
    (handled = "SelectionNotify" /\ outcome \in {"read_failed", "parse_failed"}) =>
        (out = <<>> /\ Idle(dnd))

(***************************************************************************)
(* Keyboard, modifiers and focus.  The handlers are operators from the     *)
(* processor's state `p` (a record of the fields below, with the log of    *)
(* delivered events) to its state after the call, composed as in the code. *)
(***************************************************************************)
\* The processor as the handlers see it; the log starts empty.
Self ==
    [ active_window |-> active_window, modifiers |-> modifiers, xkb |-> xkb,
      xfiltered_modifiers |-> xfiltered_modifiers,
      held_key_press |-> held_key_press, is_composing |-> is_composing,
      ime_allowed |-> ime_allowed, windows |-> windows, devices |-> devices,
      out |-> <<>>, panicked |-> FALSE, note |-> "done" ]

\* app.window_event(..): the event is logged with the value self.modifiers
\* holds while the callback runs.
Deliver(p, e) == [p EXCEPT !.out = Append(@, e @@ [stored |-> p.modifiers])]

ModifiersChanged(w, mods) == [ev |-> "ModifiersChanged", window |-> w, mods |-> mods]
KeyboardInput(w, keycode, state, repeat, is_synthetic) ==
    [ ev |-> "KeyboardInput", window |-> w, keycode |-> keycode, state |-> state,
      repeat |-> repeat, is_synthetic |-> is_synthetic ]
Focused(w, focused) == [ev |-> "Focused", window |-> w, focused |-> focused]
PointerMoved(w, device_id, position) ==
    [ev |-> "PointerMoved", window |-> w, device_id |-> device_id, position |-> position]
PointerLeft(w, device_id, position) ==
    [ev |-> "PointerLeft", window |-> w, device_id |-> device_id, position |-> position]
Ime(w, kind, text) == [ev |-> "Ime", window |-> w, kind |-> kind, text |-> text]

\* Bit b of the integer n.
BitSet(n, b) == (n \div 2^b) % 2 = 1

\* with_window: the window behind `id` if the registry has it and it is
\* alive; an entry whose window was dropped is removed.
with_window_KeepStale(p, id) ==
    IF id \notin DOMAIN p.windows
    THEN [p |-> p, found |-> FALSE]
    ELSE [p |-> p, found |-> p.windows[id].alive]
with_window(p, id) ==
    IF id \notin DOMAIN p.windows
    THEN [p |-> p, found |-> FALSE]
    ELSE IF p.windows[id].alive
         THEN [p |-> p, found |-> TRUE]
         ELSE [ p |-> [p EXCEPT !.windows =
                          [w \in DOMAIN p.windows \ {id} |-> p.windows[w]]],
                found |-> FALSE ]

\* window.shared_state_lock().has_focus = b, if the window is there
set_has_focus(p, id, b) ==
    LET r == with_window(p, id)
    IN IF r.found THEN [r.p EXCEPT !.windows[id].has_focus = b] ELSE r.p

\* send_modifiers
send_modifiers_NoForce(p, window_id, mods, force) ==
    LET old == p.modifiers
        p1 == [p EXCEPT !.modifiers = mods]
    IN IF old # mods THEN Deliver(p1, ModifiersChanged(window_id, p1.modifiers)) ELSE p1
send_modifiers_NoStore(p, window_id, mods, force) ==
    IF p.modifiers # mods \/ force
    THEN Deliver(p, ModifiersChanged(window_id, mods))
    ELSE p
send_modifiers(p, window_id, mods, force) ==
    LET old == p.modifiers
        p1 == [p EXCEPT !.modifiers = mods]
    IN IF old # mods \/ force
       THEN Deliver(p1, ModifiersChanged(window_id, p1.modifiers))
       ELSE p1

\* core_keyboard_group: bits 13 and 14 of the core state
core_keyboard_group(state) == (state \div 2^13) % 4

\* xkb_mod_mask_from_core: the XKB modifiers whose core bit is set in
\* `state`; 0 without a keymap.
xkb_mod_mask_from_core(p, state) ==
    IF p.xkb = None THEN {}
    ELSE {m \in XkbMods : BitSet(state, CoreBit[m])}

\* update_mods_from_core_event
update_mods_from_core_event(p, window_id, state) ==
    LET xkb_mask == xkb_mod_mask_from_core(p, state)
    IN IF p.xkb = None THEN p
       ELSE LET st == Unwrap(p.xkb)
                depressed0 == st.depressed \cap xkb_mask
                latched == st.latched \cap xkb_mask
                locked == st.locked \cap xkb_mask
                depressed ==
                    depressed0 \cup (xkb_mask \ (depressed0 \cup latched \cup locked))
                st1 == XkbUpdate(depressed, latched, locked, 0, 0,
                                 core_keyboard_group(state))
                p1 == [p EXCEPT !.xkb = Some(st1)]
            IN send_modifiers(p1, window_id, XkbModifiers(st1), FALSE)

send_synthic_modifier_from_core_Stored(p, window_id, state, new_x11_ok) ==
    IF p.xkb = None \/ ~new_x11_ok THEN p
    ELSE LET mask == xkb_mod_mask_from_core(p, state)
             st == XkbUpdate(mask, {}, {}, 0, 0, core_keyboard_group(state))
         IN send_modifiers(p, window_id, XkbModifiers(st), TRUE)
\* send_synthic_modifier_from_core: a ModifiersChanged computed on a state
\* of its own; self.modifiers is not written.
send_synthic_modifier_from_core(p, window_id, state, new_x11_ok) ==
    IF p.xkb = None \/ ~new_x11_ok THEN p
    ELSE LET mask == xkb_mod_mask_from_core(p, state)
             st == XkbUpdate(mask, {}, {}, 0, 0, core_keyboard_group(state))
         IN Deliver(p, ModifiersChanged(window_id, XkbModifiers(st)))

\* update_mods_from_xinput2_event
update_mods_from_xinput2_event(p, mods, group, force) ==
    IF p.xkb = None THEN p
    ELSE LET st == XkbUpdate(mods.base, mods.latched, mods.locked,
                             group.base, group.latched, group.locked)
             p1 == [p EXCEPT !.xkb = Some(st)]
         IN IF p1.active_window = None THEN p1
            ELSE send_modifiers(p1, Unwrap(p1.active_window), XkbModifiers(st), force)

\* update_mods_from_query: `server` is what XkbGetState answers, None when
\* it fails.
update_mods_from_query(p, window_id, server) ==
    IF p.xkb = None THEN p
    ELSE LET st == IF IsSome(server) THEN Unwrap(server) ELSE Unwrap(p.xkb)
             p1 == [p EXCEPT !.xkb = Some(st)]
         IN send_modifiers(p1, window_id, XkbModifiers(st), TRUE)

\* MAX_MOD_REPLAY_LEN
MAX_MOD_REPLAY_LEN == 32
\* KEYCODE_OFFSET
KEYCODE_OFFSET == 8

\* The key codes of the keymap in use: 37 is Control_L and 50 is Shift_L,
\* the modifier keys (xmodmap.is_modifier), 38 is a letter and repeats
\* (key_repeats), as does 39; 0 is the code of the key events an input
\* method sends.
Keycodes == {0, 37, 38, 50}
ModifierKeycodes == {37, 50}
RepeatKeycodes == {38, 39}

Rev(q) == [i \in 1..Len(q) |-> q[Len(q) + 1 - i]]
\* iter().position(..): the 0-based index of the first match
Position(q, x) ==
    IF \E i \in 1..Len(q) : q[i] = x
    THEN Some((CHOOSE i \in 1..Len(q) :
                  q[i] = x /\ \A j \in 1..(i - 1) : q[j] # x) - 1)
    ELSE None
\* VecDeque::resize(n, 0)
Resize(q, n) ==
    IF n <= Len(q) THEN SubSeq(q, 1, n)
    ELSE q \o [i \in 1..(n - Len(q)) |-> 0]
\* VecDeque::push_front / pop_back
PushFront(q, x) == <<x>> \o q
PopBack(q) == SubSeq(q, 1, Len(q) - 1)

\* The replay test of xinput_key_input: is the key code among the filtered
\* modifiers?  If so the queue is cut before its oldest occurrence.
replay_position(p, keycode) == Position(Rev(p.xfiltered_modifiers), keycode)
replay_truncate_KeepOlder(q, position) == Resize(q, Len(q) - 1)
replay_truncate(q, position) == Resize(q, Len(q) - 1 - position)

\* xinput_key_input.  `state` is "Pressed" or "Released"; `new_x11_ok` says
\* whether XkbState::new_x11 succeeds, `written` is the text lookup_utf8
\* finds for the window's input context ("" when there is none).
\* xinput_key_input: keymap.key_repeats(keycode), false without a keymap
key_repeats(p, keycode) == IF p.xkb = None THEN FALSE ELSE keycode \in RepeatKeycodes

\* xinput_key_input: whether the event is a repeat
is_repeat(p, keycode, state) ==
    key_repeats(p, keycode) /\ state = "Pressed" /\ p.held_key_press = Some(keycode)

\* xinput_key_input: the held key after the event
update_held_key_press_AnyRelease(p, keycode, state) ==
    IF state = "Pressed"
    THEN IF key_repeats(p, keycode) THEN [p EXCEPT !.held_key_press = Some(keycode)]
         ELSE p
    ELSE [p EXCEPT !.held_key_press = None]
update_held_key_press_NoClear(p, keycode, state) ==
    IF key_repeats(p, keycode) /\ state = "Pressed"
    THEN [p EXCEPT !.held_key_press = Some(keycode)]
    ELSE p
update_held_key_press(p, keycode, state) ==
    IF ~key_repeats(p, keycode) THEN p
    ELSE IF state = "Pressed"
         THEN [p EXCEPT !.held_key_press = Some(keycode)]
         ELSE IF p.held_key_press = Some(keycode)
              THEN [p EXCEPT !.held_key_press = None]
              ELSE p

xinput_key_input(p, xev, state, new_x11_ok, written) ==
    IF p.active_window = None THEN [p EXCEPT !.note = "no_window"]
    ELSE
    LET window == Unwrap(p.active_window)
        keycode == xev.keycode
        repeat == is_repeat(p, keycode, state)
        p1 == update_held_key_press(p, keycode, state)
        position == replay_position(p1, keycode)
        replay == IsSome(position)
        p2 == IF replay
              THEN [p1 EXCEPT !.xfiltered_modifiers =
                                  replay_truncate(@, Unwrap(position))]
              ELSE p1
        p3 == IF ~replay THEN update_mods_from_core_event(p2, window, xev.state)
              ELSE p2
    IN IF keycode # 0 /\ ~p3.is_composing
       THEN LET p4 == IF replay
                      THEN send_synthic_modifier_from_core(p3, window, xev.state,
                                                           new_x11_ok)
                      ELSE p3
                p5 == IF p4.xkb # None
                      THEN Deliver(p4, KeyboardInput(window, keycode, state,
                                                     repeat, FALSE))
                      ELSE p4
                p6 == IF replay
                      THEN send_modifiers(p5, window, p5.modifiers, TRUE)
                      ELSE p5
            IN [p6 EXCEPT !.note = IF replay THEN "replay" ELSE "key"]
       ELSE IF written # ""
            THEN LET p4 == Deliver(p3, Ime(window, "Preedit", ""))
                     p5 == [p4 EXCEPT !.is_composing = FALSE]
                 IN [Deliver(p5, Ime(window, "Commit", written))
                        EXCEPT !.note = "commit"]
            ELSE [p3 EXCEPT !.note = "swallowed"]

\* process_xevent, KeyPress and KeyRelease: the event is offered to the
\* input method only when it is allowed for the active window; `filter` is
\* what XFilterEvent answers.
process_key_xevent_NoEvict(p, xev, state, filter, new_x11_ok, written) ==
    LET forward_to_ime ==
            IsSome(p.active_window) /\ Unwrap(p.active_window) \in p.ime_allowed
        filtered == forward_to_ime /\ filter
    IN IF filtered
       THEN IF xev.keycode \in ModifierKeycodes
            THEN [p EXCEPT !.xfiltered_modifiers = PushFront(@, xev.keycode),
                           !.note = "filtered"]
            ELSE [p EXCEPT !.note = "filtered"]
       ELSE xinput_key_input(p, xev, state, new_x11_ok, written)
process_key_xevent(p, xev, state, filter, new_x11_ok, written) ==
    LET forward_to_ime ==
            IsSome(p.active_window) /\ Unwrap(p.active_window) \in p.ime_allowed
        filtered == forward_to_ime /\ filter
    IN IF filtered
       THEN LET q == p.xfiltered_modifiers
                q1 == IF Len(q) = MAX_MOD_REPLAY_LEN THEN PopBack(q) ELSE q
            IN IF xev.keycode \in ModifierKeycodes
               THEN [p EXCEPT !.xfiltered_modifiers = PushFront(q1, xev.keycode),
                              !.note = "filtered"]
               ELSE [p EXCEPT !.note = "filtered"]
       ELSE xinput_key_input(p, xev, state, new_x11_ok, written)

RECURSIVE deliver_keys(_, _, _, _)
deliver_keys(p, window_id, state, keys) ==
    IF keys = <<>> THEN p
    ELSE deliver_keys(
             Deliver(p, KeyboardInput(window_id, Head(keys), state, FALSE, TRUE)),
             window_id, state, Tail(keys))

\* handle_pressed_keys: `keymap` is what query_keymap answers.
handle_pressed_keys_NoFilter(p, window_id, state, new_x11_ok, keymap) ==
    IF p.xkb = None \/ ~new_x11_ok THEN p
    ELSE deliver_keys(p, window_id, state, keymap)
handle_pressed_keys(p, window_id, state, new_x11_ok, keymap) ==
    IF p.xkb = None \/ ~new_x11_ok THEN p
    ELSE deliver_keys(p, window_id, state,
                      SelectSeq(keymap, LAMBDA k : k >= KEYCODE_OFFSET))

\* xinput2_focused
xinput2_focused_NoSameCheck(p, xev, ime_ok, new_x11_ok, keymap, server) ==
    LET window == xev.event
    IN IF ~ime_ok
       THEN [p EXCEPT !.panicked = TRUE, !.note = "panic"]
       ELSE LET p1 == [p EXCEPT !.active_window = Some(window)]
                p2 == set_has_focus(p1, window, TRUE)
                p3 == Deliver(p2, Focused(window, TRUE))
                p4 == handle_pressed_keys(p3, window, "Pressed", new_x11_ok, keymap)
                p5 == update_mods_from_query(p4, window, server)
                device_id == IF xev.deviceid \in DOMAIN p5.devices
                             THEN Some(p5.devices[xev.deviceid].attachment)
                             ELSE None
            IN Deliver(p5, PointerMoved(window, device_id, xev.position))
xinput2_focused(p, xev, ime_ok, new_x11_ok, keymap, server) ==
    LET window == xev.event
    IN IF ~ime_ok
       THEN \* .expect("Failed to focus input context")
            [p EXCEPT !.panicked = TRUE, !.note = "panic"]
       ELSE IF p.active_window = Some(window) THEN [p EXCEPT !.note = "same"]
       ELSE LET p1 == [p EXCEPT !.active_window = Some(window)]
                p2 == set_has_focus(p1, window, TRUE)
                p3 == Deliver(p2, Focused(window, TRUE))
                p4 == handle_pressed_keys(p3, window, "Pressed", new_x11_ok, keymap)
                p5 == update_mods_from_query(p4, window, server)
                device_id == IF xev.deviceid \in DOMAIN p5.devices
                             THEN Some(p5.devices[xev.deviceid].attachment)
                             ELSE None
            IN Deliver(p5, PointerMoved(window, device_id, xev.position))

\* xinput2_unfocused
xinput2_unfocused_AnyWindow(p, xev, ime_ok, new_x11_ok, keymap) ==
    LET window == xev.event
        r == with_window(p, window)
    IN IF ~r.found THEN [r.p EXCEPT !.note = "no_window"]
       ELSE IF ~ime_ok
       THEN [r.p EXCEPT !.panicked = TRUE, !.note = "panic"]
       ELSE LET p1 == [r.p EXCEPT !.active_window = None]
                p2 == IF p1.xkb = None THEN p1
                      ELSE LET st == XkbUpdate({}, {}, {}, 0, 0, 0)
                           IN send_modifiers([p1 EXCEPT !.xkb = Some(st)],
                                             window, XkbModifiers(st), TRUE)
                p3 == handle_pressed_keys(p2, window, "Released", new_x11_ok, keymap)
                p4 == [p3 EXCEPT !.held_key_press = None]
                p5 == set_has_focus(p4, window, FALSE)
            IN Deliver(p5, Focused(window, FALSE))
xinput2_unfocused_ReleasesFirst(p, xev, ime_ok, new_x11_ok, keymap) ==
    LET window == xev.event
        r == with_window(p, window)
    IN IF ~r.found THEN [r.p EXCEPT !.note = "no_window"]
       ELSE IF ~ime_ok
       THEN [r.p EXCEPT !.panicked = TRUE, !.note = "panic"]
       ELSE LET was_active == r.p.active_window = Some(window)
                p1 == [r.p EXCEPT !.active_window = None]
            IN IF ~was_active THEN [p1 EXCEPT !.note = "other"]
               ELSE LET p2 == handle_pressed_keys(p1, window, "Released",
                                                  new_x11_ok, keymap)
                        p3 == IF p2.xkb = None THEN p2
                              ELSE LET st == XkbUpdate({}, {}, {}, 0, 0, 0)
                                   IN send_modifiers(
                                          [p2 EXCEPT !.xkb = Some(st)],
                                          window, XkbModifiers(st), TRUE)
                        p4 == [p3 EXCEPT !.held_key_press = None]
                        p5 == set_has_focus(p4, window, FALSE)
                    IN Deliver(p5, Focused(window, FALSE))
xinput2_unfocused(p, xev, ime_ok, new_x11_ok, keymap) ==
    LET window == xev.event
        r == with_window(p, window)
    IN IF ~r.found THEN [r.p EXCEPT !.note = "no_window"]
       ELSE IF ~ime_ok
       THEN \* .expect("Failed to unfocus input context")
            [r.p EXCEPT !.panicked = TRUE, !.note = "panic"]
       ELSE LET was_active == r.p.active_window = Some(window)
                \* self.active_window.take()
                p1 == [r.p EXCEPT !.active_window = None]
            IN IF ~was_active THEN [p1 EXCEPT !.note = "other"]
               ELSE LET p2 == IF p1.xkb = None THEN p1
                              ELSE LET st == XkbUpdate({}, {}, {}, 0, 0, 0)
                                   IN send_modifiers(
                                          [p1 EXCEPT !.xkb = Some(st)],
                                          window, XkbModifiers(st), TRUE)
                        p3 == handle_pressed_keys(p2, window, "Released",
                                                  new_x11_ok, keymap)
                        p4 == [p3 EXCEPT !.held_key_press = None]
                        p5 == set_has_focus(p4, window, FALSE)
                    IN Deliver(p5, Focused(window, FALSE))

\* xinput2_mouse_left, after the modifiers of the event were applied
\* (process_xevent, XI_Leave)
xinput2_mouse_left(p, xev) ==
    LET p1 == update_mods_from_xinput2_event(p, xev.mods, xev.group, FALSE)
        r == with_window(p1, xev.event)
    IN IF r.found
       THEN Deliver(r.p, PointerLeft(xev.event, Some(xev.deviceid), xev.position))
       ELSE [r.p EXCEPT !.note = "no_window"]

\* xkb_event.  `reload` is the state set_keymap_from_x11 leaves: None when
\* the keymap cannot be loaded.
xkb_event(p, xev, reload) ==
    IF xev.xkb_type = "XkbNewKeyboardNotify"
    THEN IF xev.core_device /\ xev.changed
         THEN LET p1 == [p EXCEPT !.xkb = reload]
              IN IF p1.active_window = None \/ p1.xkb = None THEN p1
                 ELSE send_modifiers(p1, Unwrap(p1.active_window),
                                     XkbModifiers(Unwrap(p1.xkb)), TRUE)
         ELSE [p EXCEPT !.note = "ignored"]
    ELSE IF xev.xkb_type = "XkbMapNotify"
    THEN LET p1 == [p EXCEPT !.xkb = reload]
         IN IF p1.active_window = None \/ p1.xkb = None THEN p1
            ELSE send_modifiers(p1, Unwrap(p1.active_window),
                                XkbModifiers(Unwrap(p1.xkb)), TRUE)
    ELSE IF xev.xkb_type = "XkbStateNotify"
    THEN IF p.xkb = None THEN p
         ELSE LET p1 == [p EXCEPT !.xkb = Some(xev.state)]
              IN IF p1.active_window = None THEN p1
                 ELSE send_modifiers(p1, Unwrap(p1.active_window),
                                     XkbModifiers(xev.state), TRUE)
    ELSE [p EXCEPT !.note = "ignored"]

\* process_event, after process_xevent: the requests of the input method
\* are handled, then its events are drained.
RECURSIVE handle_ime_requests(_, _)
handle_ime_requests(p, requests) ==
    IF requests = <<>> THEN p
    ELSE LET r == Head(requests)
             p1 == IF r.request = "Allow"
                   THEN [p EXCEPT !.ime_allowed =
                            IF r.allowed THEN @ \cup {r.window} ELSE @ \ {r.window}]
                   ELSE p    \* ImeRequest::Area: send_xim_area
         IN handle_ime_requests(p1, Tail(requests))

RECURSIVE drain_ime_events_UpdateAlways(_, _)
drain_ime_events_UpdateAlways(p, events) ==
    IF events = <<>> THEN p
    ELSE LET e == Head(events)
             p1 ==
                CASE e.event = "Enabled" -> Deliver(p, Ime(e.window, "Enabled", ""))
                  [] e.event = "Start" ->
                        Deliver([p EXCEPT !.is_composing = TRUE],
                                Ime(e.window, "Preedit", ""))
                  [] e.event = "Update" ->
                        Deliver(p, Ime(e.window, "Preedit", e.text))
                  [] e.event = "End" ->
                        Deliver([p EXCEPT !.is_composing = FALSE],
                                Ime(e.window, "Preedit", ""))
                  [] e.event = "Disabled" ->
                        Deliver([p EXCEPT !.is_composing = FALSE],
                                Ime(e.window, "Disabled", ""))
                  [] OTHER -> p
         IN drain_ime_events_UpdateAlways(p1, Tail(events))

RECURSIVE drain_ime_events(_, _)
drain_ime_events(p, events) ==
    IF events = <<>> THEN p
    ELSE LET e == Head(events)
             p1 ==
                CASE e.event = "Enabled" -> Deliver(p, Ime(e.window, "Enabled", ""))
                  [] e.event = "Start" ->
                        Deliver([p EXCEPT !.is_composing = TRUE],
                                Ime(e.window, "Preedit", ""))
                  [] e.event = "Update" /\ p.is_composing ->
                        Deliver(p, Ime(e.window, "Preedit", e.text))
                  [] e.event = "End" ->
                        Deliver([p EXCEPT !.is_composing = FALSE],
                                Ime(e.window, "Preedit", ""))
                  [] e.event = "Disabled" ->
                        Deliver([p EXCEPT !.is_composing = FALSE],
                                Ime(e.window, "Disabled", ""))
                  [] OTHER -> p
         IN drain_ime_events(p1, Tail(events))

\* process_event: `p` is the processor after process_xevent; nothing more
\* runs once a handler has panicked.
process_event_SkipFiltered(p, requests, events) ==
    IF p.panicked \/ p.note = "filtered" THEN p
    ELSE drain_ime_events(handle_ime_requests(p, requests), events)
process_event(p, requests, events) ==
    IF p.panicked THEN p
    ELSE drain_ime_events(handle_ime_requests(p, requests), events)

\* The value of the last ModifiersChanged of a log, `before` if it has none.
LastModifiers(log, before) ==
    LET S == {i \in 1..Len(log) : log[i].ev = "ModifiersChanged"}
    IN IF S = {} THEN before
       ELSE Some(log[CHOOSE i \in S : \A j \in S : j <= i].mods)

\* The processor's state after a call of process_event.
Store0(q, name, a) ==
    /\ active_window' = q.active_window
    /\ modifiers' = q.modifiers
    /\ xkb' = q.xkb
    /\ xfiltered_modifiers' = q.xfiltered_modifiers
    /\ held_key_press' = q.held_key_press
    /\ is_composing' = q.is_composing
    /\ ime_allowed' = q.ime_allowed
    /\ windows' = q.windows
    /\ devices' = q.devices
    /\ out' = q.out
    /\ panicked' = q.panicked
    /\ outcome' = q.note
    /\ handled' = name
    /\ args' = a
    /\ wire' = <<>>
    /\ lastDelivered' = LastModifiers(q.out, lastDelivered)
    /\ UNCHANGED <<dndVars, platformVars>>

\* The same for the handlers that leave the touch contacts alone.
Store(q, name, a) ==
    Store0(q, name, a) /\ UNCHANGED <<num_touch, first_touch, hist, events_loop>>

(***************************************************************************)
(* The native events of the keyboard and focus model                      *)
(***************************************************************************)
\* Most entries of xfiltered_modifiers the model lets the queue reach.
MaxFiltered == 2

\* The state field of core key events: nothing, and Shift in keyboard group 1
\* (bit 13).
CoreStates == {0, 8193}
\* Modifier states the server reports (XkbStateNotify, XkbGetState, XInput2).
ServerStates ==
    { XkbUpdate({}, {}, {}, 0, 0, 0), XkbUpdate({"ctrl"}, {}, {"caps"}, 0, 0, 1) }
\* Texts lookup_utf8 finds.
Texts == {"", "x"}
\* What the input method has queued when process_event looks.
ImeRequestQueues ==
    {<<>>} \cup { <<[request |-> "Allow", window |-> 1, allowed |-> b]>> :
                    b \in BOOLEAN }
ImeEventQueues ==
    {<<>>} \cup { <<[event |-> e, window |-> 1, text |-> "x"]>> :
                    e \in {"Start", "Update", "End"} }

\* What the server and the input method answer during a focus event: all
\* goes well with some keys down, or one of the calls fails.  `keymap` is
\* the answer of query_keymap, the key codes that are down, ascending.
FocusInput(deviceid, ime_ok, new_x11_ok, keymap, server) ==
    [ deviceid |-> deviceid, ime_ok |-> ime_ok, new_x11_ok |-> new_x11_ok,
      keymap |-> keymap, server |-> server ]
FocusInputs ==
    { FocusInput(3, TRUE, TRUE, <<5, 38>>, Some(st)) : st \in ServerStates }
    \cup { FocusInput(3, TRUE, TRUE, <<>>, None),
           FocusInput(9, TRUE, FALSE, <<5, 38>>, None),
           FocusInput(3, FALSE, TRUE, <<>>, None) }

\* The same for a focus-out event, which asks the server for no state.
FocusOutInputs == { <<i.ime_ok, i.new_x11_ok, i.keymap>> : i \in FocusInputs }

\* KeyPress / KeyRelease
KeyEvent(state, keycode, core_state, filter, new_x11_ok, written) ==
    /\ ~panicked
    /\ LET xev == [keycode |-> keycode, state |-> core_state]
           q == process_key_xevent(Self, xev, state, filter, new_x11_ok, written)
       IN /\ Len(q.xfiltered_modifiers) <= MaxFiltered
          /\ Store(process_event(q, <<>>, <<>>),
                   IF state = "Pressed" THEN "KeyPress" ELSE "KeyRelease", <<>>)

\* GenericEvent, XI_FocusIn
FocusIn(window, deviceid, ime_ok, new_x11_ok, keymap, server) ==
    /\ ~panicked
    /\ LET xev == [event |-> window, deviceid |-> deviceid, position |-> 0]
           q == xinput2_focused(Self, xev, ime_ok, new_x11_ok, keymap, server)
       IN Store(process_event(q, <<>>, <<>>), "XI_FocusIn", <<>>)

\* GenericEvent, XI_FocusOut
FocusOut(window, ime_ok, new_x11_ok, keymap) ==
    /\ ~panicked
    /\ LET xev == [event |-> window]
           q == xinput2_unfocused(Self, xev, ime_ok, new_x11_ok, keymap)
       IN Store(process_event(q, <<>>, <<>>), "XI_FocusOut", <<>>)

\* GenericEvent, XI_Leave
PointerLeave(window, st) ==
    /\ ~panicked
    /\ LET xev == [ event |-> window, deviceid |-> 2, position |-> 0,
                    mods |-> [base |-> st.depressed, latched |-> st.latched,
                              locked |-> st.locked],
                    group |-> [base |-> st.group[1], latched |-> st.group[2],
                               locked |-> st.group[3]] ]
       IN Store(process_event(xinput2_mouse_left(Self, xev), <<>>, <<>>),
                "XI_Leave", <<>>)

\* An event of the XKB extension
XkbEvent(xkb_type, st, reload) ==
    /\ ~panicked
    /\ LET xev == [xkb_type |-> xkb_type, core_device |-> TRUE, changed |-> TRUE,
                   state |-> st]
       IN Store(process_event(xkb_event(Self, xev, reload), <<>>, <<>>),
                xkb_type, <<>>)

\* An event no handler is for (an unknown type, or a GenericEvent of another
\* extension), with what the input method has queued meanwhile.
IgnoredEvent(requests, events) ==
    /\ ~panicked
    /\ requests # <<>> \/ events # <<>>
    /\ Store(process_event([Self EXCEPT !.note = "ignored"], requests, events),
             "ignored", <<>>)

NextKbd ==
    \/ \E state \in {"Pressed", "Released"}, keycode \in Keycodes,
          core_state \in CoreStates :
          \E filter \in IF active_window # None /\ Unwrap(active_window) \in ime_allowed
                        THEN BOOLEAN ELSE {FALSE},
             new_x11_ok \in IF IsSome(replay_position(Self, keycode))
                            THEN BOOLEAN ELSE {TRUE},
             written \in IF keycode = 0 \/ is_composing THEN Texts ELSE {""} :
             KeyEvent(state, keycode, core_state, filter, new_x11_ok, written)
    \/ \E w \in Windows, i \in FocusInputs :
          FocusIn(w, i.deviceid, i.ime_ok, i.new_x11_ok, i.keymap, i.server)
    \/ \E w \in Windows, i \in FocusOutInputs : FocusOut(w, i[1], i[2], i[3])
    \/ \E w \in Windows, st \in ServerStates : PointerLeave(w, st)
    \/ \E t \in {"XkbNewKeyboardNotify", "XkbMapNotify"},
          reload \in {None, Some(XkbNew)} : XkbEvent(t, XkbNew, reload)
    \/ \E st \in ServerStates : XkbEvent("XkbStateNotify", st, None)
    \/ \E requests \in ImeRequestQueues : IgnoredEvent(requests, <<>>)


SpecKbd == Init /\ [][NextKbd]_vars

(***************************************************************************)
(* send_modifiers on its own: called with every window, value and force    *)
(* flag, on a processor whose last-sent value is any set of modifiers.     *)
(***************************************************************************)
InitSendModifiers == InitFields /\ modifiers \in SUBSET ModifierNames

SendModifiers(window_id, mods, force) ==
    /\ ~panicked
    /\ Store(send_modifiers(Self, window_id, mods, force), "send_modifiers",
             [window |-> window_id, modifiers |-> mods, force |-> force,
              sent |-> modifiers])

NextSendModifiers ==
    \E w \in Windows, mods \in SUBSET ModifierNames, force \in BOOLEAN :
        SendModifiers(w, mods, force)

SpecSendModifiers == InitSendModifiers /\ [][NextSendModifiers]_vars

\* C9: a call send_modifiers(new, force) delivers exactly one
\* ModifiersChanged event, carrying `new`, when `new` differs from the value
\* sent last or `force` is set, and delivers nothing otherwise; in both cases
\* the last-sent value is `new` afterwards.
C9_SendModifiers ==
    handled = "send_modifiers" =>
        /\ modifiers = args.modifiers
        /\ IF args.modifiers # args.sent \/ args.force
           THEN /\ Len(out) = 1
                /\ out[1].ev = "ModifiersChanged"
                /\ out[1].window = args.window
                /\ out[1].mods = args.modifiers
           ELSE out = <<>>

\* A forced call with the value that was sent last: one event all the same.
C9_Witness ==
    /\ handled = "send_modifiers"
    /\ args.force /\ args.modifiers = args.sent /\ args.sent # {}
    /\ Len(out) = 1 /\ out[1].mods = modifiers

\* The callback `i` of a handler's log runs with the stored modifiers equal
\* to the value of the ModifiersChanged delivered last before it (in this
\* handler, else in an earlier one); true when none was delivered yet.
InSync(log, before, i) ==
    LET last == LastModifiers(SubSeq(log, 1, i - 1), before)
    IN IsSome(last) => log[i].stored = Unwrap(last)

\* C10 as stated: after every processed event, and at every callback other
\* than a ModifiersChanged being delivered, the stored last-sent modifiers
\* equal the value of the ModifiersChanged delivered last, the
\* KeyboardInput callback of a modifier replay included.
C10_StoredIsLastDelivered ==
    [][ /\ IsSome(lastDelivered') => modifiers' = Unwrap(lastDelivered')
        /\ \A i \in 1..Len(out') :
              out'[i].ev # "ModifiersChanged" => InSync(out', lastDelivered, i)
      ]_vars

\* C10, amended: the same, except at the KeyboardInput callback of a
\* modifier replay, which runs after a temporary ModifiersChanged that is not
\* stored; the replay ends with a forced ModifiersChanged of the stored
\* value, so the two agree again when the handler returns.
C10_StoredIsLastDeliveredOutsideReplay ==
    [][ /\ IsSome(lastDelivered') => modifiers' = Unwrap(lastDelivered')
        /\ \A i \in 1..Len(out') :
              (/\ out'[i].ev # "ModifiersChanged"
               /\ ~(outcome' = "replay" /\ out'[i].ev = "KeyboardInput"))
                  => InSync(out', lastDelivered, i)
        /\ (outcome' = "replay" /\ out' # <<>>) =>
              /\ out'[Len(out')].ev = "ModifiersChanged"
              /\ out'[Len(out')].mods = modifiers'
      ]_vars

\* A replay whose temporary modifiers differ from the stored ones while
\* KeyboardInput is delivered, and which ends with the stored value sent.
C10_Witness ==
    /\ outcome = "replay" /\ Len(out) = 3
    /\ out[1].ev = "ModifiersChanged" /\ out[2].ev = "KeyboardInput"
    /\ out[1].mods # out[2].stored
    /\ out[3].ev = "ModifiersChanged" /\ out[3].mods = modifiers
    /\ lastDelivered = Some(modifiers)

(***************************************************************************)
(* Modifier replay                                                         *)
(***************************************************************************)
\* The modifiers a disposable state shows for the state field of some core
\* key event.
SyntheticModifiers ==
    { XkbModifiers(XkbUpdate({m \in XkbMods : BitSet(s, CoreBit[m])}, {}, {},
                             0, 0, core_keyboard_group(s))) : s \in CoreStates }

\* The forced ModifiersChanged that ends a replay: the log's last event
\* carries the stored modifiers, which the replay left as they were.
ReplayRestores ==
    /\ out' # <<>>
    /\ out'[Len(out')].ev = "ModifiersChanged"
    /\ out'[Len(out')].mods = modifiers
    /\ modifiers' = modifiers
    /\ xkb' = xkb

\* C11 as stated: an unfiltered key event whose keycode is in the
\* filtered-modifier queue (processor not composing) delivers a temporary
\* ModifiersChanged, the KeyboardInput, then a forced ModifiersChanged of
\* the stored modifiers, and leaves the stored modifiers as they were.
C11_ReplayOrder ==
    [][ (outcome' = "replay" /\ ~panicked') =>
            /\ Len(out') = 3
            /\ out'[1].ev = "ModifiersChanged"
            /\ out'[2].ev = "KeyboardInput"
            /\ ReplayRestores
      ]_vars

\* C11, amended: that holds when a keymap is loaded and the disposable state
\* can be created.  Without a keymap neither the temporary ModifiersChanged
\* nor the KeyboardInput is delivered, and when the disposable state cannot
\* be created the temporary ModifiersChanged is left out; the forced
\* ModifiersChanged of the unchanged stored modifiers is delivered in every
\* case, last.  The temporary event is computed apart from the keyboard
\* state, which stays as it was.
C11_ReplayOrderWithKeymap ==
    [][ (outcome' = "replay" /\ ~panicked') =>
            /\ ReplayRestores
            /\ Len(out') \in 1..3
            /\ xkb = None => Len(out') = 1
            /\ xkb # None => Len(out') \in {2, 3}
            /\ Len(out') >= 2 =>
                   /\ out'[Len(out') - 1].ev = "KeyboardInput"
                   /\ ~out'[Len(out') - 1].is_synthetic
                   /\ out'[Len(out') - 1].stored = modifiers
            /\ Len(out') = 3 =>
                   /\ out'[1].ev = "ModifiersChanged"
                   /\ out'[1].mods \in SyntheticModifiers
                   /\ out'[1].stored = modifiers
      ]_vars

\* A replayed release: temporary modifiers that differ from the stored ones,
\* the key, and the stored modifiers again.
C11_Witness ==
    /\ handled = "KeyRelease" /\ outcome = "replay" /\ Len(out) = 3
    /\ out[1].ev = "ModifiersChanged" /\ out[1].mods # modifiers
    /\ out[2].ev = "KeyboardInput" /\ out[2].state = "Released"
    /\ out[3].ev = "ModifiersChanged" /\ out[3].mods = modifiers

(***************************************************************************)
(* Key repeat: key events of one repeatable key among others, with the     *)
(* focus moving between the windows.  No input method is allowed, so no    *)
(* event is filtered, and the keymap stays loaded.                         *)
(***************************************************************************)
\* Two keys that repeat and a modifier key, which does not.
RepeatSpecKeycodes == RepeatKeycodes \cup {37}

\* The history after a key event the handler reported: the keys pressed and
\* not released since, the keys released and not pressed since, and the
\* key pressed with no press of another repeatable key since.
HistAfterKey(h, keycode, state) ==
    IF state = "Pressed"
    THEN [ h EXCEPT !.down = @ \cup {keycode}, !.up = @ \ {keycode},
                    !.undisturbed = IF keycode \in RepeatKeycodes
                                    THEN {keycode} ELSE @ ]
    ELSE [ h EXCEPT !.down = @ \ {keycode}, !.up = @ \cup {keycode},
                    !.undisturbed = @ \ {keycode} ]

\* KeyPress / KeyRelease, not filtered
RepeatKey(state, keycode, core_state) ==
    /\ ~panicked
    /\ LET xev == [keycode |-> keycode, state |-> core_state]
           q == process_event(
                    process_key_xevent(Self, xev, state, FALSE, TRUE, ""),
                    <<>>, <<>>)
       IN /\ Store0(q, IF state = "Pressed" THEN "KeyPress" ELSE "KeyRelease", <<>>)
          /\ hist' = IF q.note = "key" THEN HistAfterKey(hist, keycode, state)
                     ELSE hist
          /\ UNCHANGED <<num_touch, first_touch, events_loop>>

\* XI_FocusIn and XI_FocusOut; the history starts again when the active
\* window changes.
RepeatFocus(window, in) ==
    /\ ~panicked
    /\ LET q == process_event(
                    IF in
                    THEN xinput2_focused(Self, [event |-> window, deviceid |-> 3,
                                                position |-> 0],
                                         TRUE, TRUE, <<>>, None)
                    ELSE xinput2_unfocused(Self, [event |-> window],
                                           TRUE, TRUE, <<>>),
                    <<>>, <<>>)
       IN /\ Store0(q, IF in THEN "XI_FocusIn" ELSE "XI_FocusOut", <<>>)
          /\ hist' = IF q.active_window = active_window THEN hist ELSE HistNew
          /\ UNCHANGED <<num_touch, first_touch, events_loop>>

NextRepeat ==
    \/ \E state \in {"Pressed", "Released"}, keycode \in RepeatSpecKeycodes,
          core_state \in CoreStates : RepeatKey(state, keycode, core_state)
    \/ \E w \in Windows, in \in BOOLEAN : RepeatFocus(w, in)

SpecRepeat == Init /\ [][NextRepeat]_vars

\* The KeyboardInput the last key event delivered (the last event of its log).
Reported == out[Len(out)]

\* A press of a repeatable key was reported by this step.
PressReported ==
    /\ handled' = "KeyPress" /\ outcome' = "key"
    /\ out'[Len(out')].keycode \in RepeatKeycodes

\* C12 as stated: while the window stays focused, a press of a repeatable
\* key K after an earlier press of K with no release of K since is reported
\* with repeat = true, whatever key events came in between.
C12_RepeatWhateverBetween ==
    [][ (PressReported /\ out'[Len(out')].keycode \in hist.down) =>
            out'[Len(out')].repeat
      ]_vars

\* C12, amended: it is reported with repeat = true when no other repeatable
\* key was pressed in between, whatever presses and releases of
\* non-repeatable keys and releases of other keys came in between; after a
\* press of another repeatable key it is reported with repeat = false.
C12_RepeatOfLatestPressed ==
    [][ PressReported =>
            /\ out'[Len(out')].keycode \in hist.undisturbed => out'[Len(out')].repeat
            /\ out'[Len(out')].keycode \in hist.down \ hist.undisturbed =>
                   ~out'[Len(out')].repeat
      ]_vars

\* K is reported as a repeat while a non-repeatable key, pressed after K's
\* first press, is still down.
C12_Witness ==
    /\ handled = "KeyPress" /\ outcome = "key"
    /\ Reported.keycode = 38 /\ Reported.repeat
    /\ 37 \in hist.down

\* C13: a press of a key whose last reported event, in this stay of the
\* focus, was a release is reported with repeat = false.
C13_NoRepeatAfterRelease ==
    [][ (PressReported /\ out'[Len(out')].keycode \in hist.up) =>
            ~out'[Len(out')].repeat
      ]_vars

\* K pressed again after its release while another repeatable key, pressed
\* before that release, is still down.
C13_Witness ==
    /\ handled = "KeyPress" /\ outcome = "key"
    /\ Reported.keycode = 38 /\ ~Reported.repeat
    /\ 39 \in hist.down /\ hist.undisturbed = {38}

(***************************************************************************)
(* Focus changes: XI_FocusIn and XI_FocusOut with what the server answers  *)
(***************************************************************************)
\* The key codes of the synthetic key events of a log, in order.
RECURSIVE SyntheticKeys(_, _)
SyntheticKeys(log, state) ==
    IF log = <<>> THEN <<>>
    ELSE LET e == Head(log)
         IN (IF e.ev = "KeyboardInput" /\ e.is_synthetic /\ e.state = state
             THEN <<e.keycode>> ELSE <<>>) \o SyntheticKeys(Tail(log), state)

\* The places of a log where an event of one kind stands.
Places(log, ev) == { j \in 1..Len(log) : log[j].ev = ev }

\* GenericEvent, XI_FocusIn; `args` keeps the window of the event and the
\* answers, `hist.pressed` the synthetic presses of the last focus-in that
\* changed the active window.
FocusInAt(window, i) ==
    /\ ~panicked
    /\ LET xev == [event |-> window, deviceid |-> i.deviceid, position |-> 0]
           q == process_event(
                    xinput2_focused(Self, xev, i.ime_ok, i.new_x11_ok, i.keymap,
                                    i.server),
                    <<>>, <<>>)
       IN /\ Store0(q, "XI_FocusIn", <<window, i>>)
          /\ hist' = IF q.note = "done"
                     THEN [hist EXCEPT !.pressed = SyntheticKeys(q.out, "Pressed")]
                     ELSE hist
          /\ UNCHANGED <<num_touch, first_touch, events_loop>>

\* GenericEvent, XI_FocusOut
FocusOutAt(window, i) ==
    /\ ~panicked
    /\ LET xev == [event |-> window]
           q == process_event(
                    xinput2_unfocused(Self, xev, i.ime_ok, i.new_x11_ok, i.keymap),
                    <<>>, <<>>)
       IN /\ Store0(q, "XI_FocusOut", <<window, i>>)
          /\ UNCHANGED <<num_touch, first_touch, hist, events_loop>>

\* Focus events, the key events that set the held key and the modifiers,
\* and the XKB events that load and lose the keymap.
NextFocus ==
    \/ \E w \in Windows, i \in FocusInputs : FocusInAt(w, i)
    \/ \E w \in Windows, i \in FocusInputs : FocusOutAt(w, i)
    \/ \E state \in {"Pressed", "Released"}, core_state \in CoreStates :
          KeyEvent(state, 38, core_state, FALSE, TRUE, "")
    \/ \E reload \in {None, Some(XkbNew)} :
          XkbEvent("XkbNewKeyboardNotify", XkbNew, reload)

SpecFocus == Init /\ [][NextFocus]_vars

\* The step is a focus-in for the window that is the active one already /
\* for another window, and the input method took the focus call.
FocusInSame ==
    /\ handled' = "XI_FocusIn" /\ args' # <<>> /\ args'[2].ime_ok
    /\ active_window = Some(args'[1])
FocusInChange ==
    /\ handled' = "XI_FocusIn" /\ args' # <<>> /\ args'[2].ime_ok
    /\ active_window # Some(args'[1])
\* The step is a focus-out for the active window.
FocusOutActive ==
    /\ handled' = "XI_FocusOut" /\ args' # <<>> /\ args'[2].ime_ok
    /\ active_window = Some(args'[1])

\* C38: a focus-out for a window that is not the active window leaves the
\* active window as it was (so that window goes on receiving the key events
\* and its own focus-out still delivers Focused(false)).
C38_FocusOutOtherKeepsActive ==
    [][ (handled' = "XI_FocusOut" /\ outcome' = "other") =>
            active_window' = active_window
      ]_vars
\* C34: the first press of a repeatable key reported to a window after that
\* window gained the focus (no press or release of the key was reported
\* since the active window changed) is reported with repeat = false, whether
\* the focus came through a focus-out or through a focus-in for another
\* window with no focus-out before it.
C34_FirstPressAfterFocusNotRepeat ==
    [][ (PressReported /\ out'[Len(out')].keycode \notin hist.down \cup hist.up) =>
            ~out'[Len(out')].repeat
      ]_vars
\* C14: a focus-in for the window that is already the active window
\* delivers no event and leaves active_window, the key-repeat slot and the
\* stored modifiers as they were.
C14_FocusInSameWindow ==
    [][ FocusInSame =>
          /\ out' = <<>>
          /\ active_window' = active_window
          /\ held_key_press' = held_key_press
          /\ modifiers' = modifiers ]_vars
C14_Witness ==
    /\ handled = "XI_FocusIn" /\ outcome = "same" /\ out = <<>>
    /\ active_window = Some(args[1])
    /\ held_key_press # None /\ modifiers # {}

\* C15: a focus-out delivers events only when its window is the active
\* window; a focus-out for any other window delivers nothing.
C15_FocusOutOnlyActive ==
    [][ (handled' = "XI_FocusOut" /\ args' # <<>> /\ out' # <<>>)
          => active_window = Some(args'[1]) ]_vars
C15_Witness ==
    /\ handled = "XI_FocusOut" /\ outcome = "other" /\ out = <<>>
    /\ windows[args[1]].alive

\* The keys handle_pressed_keys reports for the answers `i` of a focus
\* event when the keymap is loaded (`loaded`), and the number of
\* ModifiersChanged events of the event.
ReportedKeys(i, loaded) ==
    IF loaded /\ i.new_x11_ok
    THEN SelectSeq(i.keymap, LAMBDA k : k >= KEYCODE_OFFSET) ELSE <<>>
SyntheticAt(log, j, state) ==
    /\ log[j].is_synthetic /\ ~log[j].repeat /\ log[j].state = state

\* C16 as stated: a focus-in that changes the active window delivers as
\* many synthetic presses as the key-state query reports keys down, each
\* synthetic and no repeat, after Focused(true) and before the one
\* ModifiersChanged.
C16_PressesAsQueried ==
    [][ FocusInChange =>
          LET K == Places(out', "KeyboardInput")
              F == Places(out', "Focused")
              M == Places(out', "ModifiersChanged")
          IN /\ Cardinality(K) = Len(args'[2].keymap)
             /\ \A j \in K : SyntheticAt(out', j, "Pressed")
             /\ Cardinality(F) = 1 /\ Cardinality(M) = 1
             /\ \A j \in K, f \in F, m \in M : f < j /\ j < m ]_vars

\* C16: a focus-in that changes the active window delivers Focused(true)
\* first; then, when the keymap is loaded and the scratch key state could
\* be made, one synthetic press, no repeat, for every key code from
\* KEYCODE_OFFSET on the query reports, in the query's order, and none
\* otherwise; then one ModifiersChanged when the key state is loaded, and
\* none otherwise.
C16_PressesAsQueriedWithKeymap ==
    [][ FocusInChange =>
          LET K == Places(out', "KeyboardInput")
              F == Places(out', "Focused")
              M == Places(out', "ModifiersChanged")
          IN /\ SyntheticKeys(out', "Pressed") = ReportedKeys(args'[2], xkb # None)
             /\ Cardinality(K) = Len(ReportedKeys(args'[2], xkb # None))
             /\ \A j \in K : SyntheticAt(out', j, "Pressed")
             /\ F = {1} /\ out'[1].focused
             /\ Cardinality(M) = IF xkb = None THEN 0 ELSE 1
             /\ \A j \in K, m \in M : 1 < j /\ j < m ]_vars
\* A focus-in gave a synthetic press and then a ModifiersChanged that
\* repeats the modifiers the application had.
C16_Witness ==
    /\ handled = "XI_FocusIn" /\ outcome = "done"
    /\ SyntheticKeys(out, "Pressed") = <<38>>
    /\ \E m \in Places(out, "ModifiersChanged") : out[m].mods = out[m].stored

\* C17 as stated: a focus-out of the active window delivers the cleared
\* ModifiersChanged once and before every synthetic release, the releases
\* are for the keys pressed at the focus-in, and Focused(false) is last.
C17_ReleasesAsPressed ==
    [][ FocusOutActive =>
          LET K == Places(out', "KeyboardInput")
              M == Places(out', "ModifiersChanged")
          IN /\ Cardinality(M) = 1
             /\ \A m \in M : out'[m].mods = {} /\ \A j \in K : m < j
             /\ \A j \in K : SyntheticAt(out', j, "Released")
             /\ SyntheticKeys(out', "Released") = hist.pressed
             /\ out'[Len(out')].ev = "Focused"
             /\ ~out'[Len(out')].focused ]_vars

\* C17: a focus-out of the active window delivers, when the key state is
\* loaded, the cleared ModifiersChanged once and first; then, when the
\* scratch key state could be made, one synthetic release for every key
\* code from KEYCODE_OFFSET on that the query reports at the focus-out;
\* and Focused(false) last.
C17_ReleasesAsQueried ==
    [][ FocusOutActive =>
          LET K == Places(out', "KeyboardInput")
              M == Places(out', "ModifiersChanged")
          IN /\ M = IF xkb = None THEN {} ELSE {1}
             /\ \A m \in M : out'[m].mods = {}
             /\ \A j \in K : SyntheticAt(out', j, "Released")
             /\ SyntheticKeys(out', "Released") = ReportedKeys(args'[2], xkb # None)
             /\ Cardinality(K) = Len(ReportedKeys(args'[2], xkb # None))
             /\ Places(out', "Focused") = {Len(out')}
             /\ ~out'[Len(out')].focused ]_vars
\* A focus-out released a key that the focus-in had not pressed.
C17_Witness ==
    /\ handled = "XI_FocusOut" /\ outcome = "done"
    /\ SyntheticKeys(out, "Released") = <<38>>
    /\ hist.pressed = <<>>
    /\ out[1].ev = "ModifiersChanged"

(***************************************************************************)
(* Touch contacts: XI_TouchBegin, XI_TouchUpdate, XI_TouchEnd              *)
(***************************************************************************)
\* Most contacts that touch at the same time.
MaxTouches == 2
\* The contact ids (xev.detail) of the touch events.
TouchIds == {5, 7, 9}
TouchPhases == {"XI_TouchBegin", "XI_TouchUpdate", "XI_TouchEnd"}
\* Where on the window a contact is (xev.event_x).
TouchPositions == {0, 1}

\* the count left as it is
SaturatingDec_Keep(n) == n
\* u32::saturating_sub(1)
SaturatingDec(n) == IF n = 0 THEN 0 ELSE n - 1

\* is_first_touch: the new first and num, and the value returned.
is_first_touch_LatestBegin(first, num, id, phase) ==
    LET first1 == IF phase = "XI_TouchBegin" THEN Some(id)
                  ELSE IF phase = "XI_TouchEnd" /\ first = Some(id) THEN None
                  ELSE first
        num1 == IF phase = "XI_TouchBegin" THEN num + 1
                ELSE IF phase = "XI_TouchEnd" THEN SaturatingDec(num)
                ELSE num
    IN [ first |-> first1, num |-> num1, result |-> (first1 = Some(id)) ]
is_first_touch(first, num, id, phase) ==
    LET first1 == IF phase = "XI_TouchBegin"
                  THEN (IF num = 0 THEN Some(id) ELSE first)
                  ELSE IF phase = "XI_TouchEnd" /\ first = Some(id) THEN None
                  ELSE first
        num1 == IF phase = "XI_TouchBegin" THEN num + 1
                ELSE IF phase = "XI_TouchEnd" THEN SaturatingDec(num)
                ELSE num
    IN [ first |-> first1, num |-> num1, result |-> (first1 = Some(id)) ]

\* The pointer events of a touch contact, each with its `primary` flag.
TouchCursorMoved(w, position) ==
    [ ev |-> "PointerMoved", window |-> w, device_id |-> None, primary |-> TRUE,
      position |-> position, source |-> "Mouse" ]
TouchEntered(w, device_id, primary, position, finger_id) ==
    [ ev |-> "PointerEntered", window |-> w, device_id |-> device_id,
      primary |-> primary, position |-> position, finger_id |-> finger_id ]
TouchButton(w, device_id, primary, state, position, finger_id) ==
    [ ev |-> "PointerButton", window |-> w, device_id |-> device_id,
      primary |-> primary, state |-> state, position |-> position,
      finger_id |-> finger_id ]
TouchMoved(w, device_id, primary, position, finger_id) ==
    [ ev |-> "PointerMoved", window |-> w, device_id |-> device_id,
      primary |-> primary, position |-> position, source |-> "Touch",
      finger_id |-> finger_id ]
TouchLeft(w, device_id, primary, position, finger_id) ==
    [ ev |-> "PointerLeft", window |-> w, device_id |-> device_id,
      primary |-> primary, position |-> Some(position), finger_id |-> finger_id ]

\* xinput2_touch: the processor, and the contact fields first_touch and
\* num_touch, after the event.
xinput2_touch(p, first, num, xev, phase) ==
    LET window == xev.event
        r == with_window(p, window)
    IN IF ~r.found
       THEN [ p |-> [r.p EXCEPT !.note = "no_window"], first |-> first, num |-> num ]
       ELSE LET id == xev.detail
                position == xev.position
                t == is_first_touch(first, num, id, phase)
                p1 == IF t.result
                      THEN Deliver(r.p, TouchCursorMoved(window, position))
                      ELSE r.p
                device_id == Some(xev.deviceid)
                p2 == CASE phase = "XI_TouchBegin" ->
                             Deliver(
                               Deliver(p1, TouchEntered(window, device_id, t.result,
                                                        position, id)),
                               TouchButton(window, device_id, t.result, "Pressed",
                                           position, id))
                        [] phase = "XI_TouchUpdate" ->
                             Deliver(p1, TouchMoved(window, device_id, t.result,
                                                    position, id))
                        [] phase = "XI_TouchEnd" ->
                             Deliver(
                               Deliver(p1, TouchButton(window, device_id, t.result,
                                                       "Released", position, id)),
                               TouchLeft(window, device_id, t.result, position, id))
            IN [ p |-> p2, first |-> t.first, num |-> t.num ]

\* The contacts on the screen after a touch event, and the contact among
\* them that began while no other contact touched.
HistAfterTouch(h, id, phase) ==
    CASE phase = "XI_TouchBegin" ->
           [ h EXCEPT !.touching = @ \cup {id},
                      !.lone = IF h.touching = {} THEN Some(id) ELSE @ ]
      [] phase = "XI_TouchUpdate" -> h
      [] phase = "XI_TouchEnd" ->
           [ h EXCEPT !.touching = @ \ {id},
                      !.lone = IF @ = Some(id) THEN None ELSE @ ]

\* GenericEvent, XI_TouchBegin | XI_TouchUpdate | XI_TouchEnd.  The server
\* begins a contact once, and updates and ends only contacts that began.
TouchEvent(window, id, phase, position) ==
    /\ ~panicked
    /\ IF phase = "XI_TouchBegin"
       THEN id \notin hist.touching /\ Cardinality(hist.touching) < MaxTouches
       ELSE id \in hist.touching
    /\ LET xev == [event |-> window, detail |-> id, deviceid |-> 2,
                   position |-> position]
           r == xinput2_touch(Self, first_touch, num_touch, xev, phase)
       IN /\ Store0(process_event(r.p, <<>>, <<>>), phase, <<window, id>>)
          /\ first_touch' = r.first
          /\ num_touch' = r.num
          /\ hist' = HistAfterTouch(hist, id, phase)
          /\ UNCHANGED events_loop

NextTouch ==
    \E w \in Windows, id \in TouchIds, phase \in TouchPhases,
       position \in TouchPositions : TouchEvent(w, id, phase, position)

SpecTouch == Init /\ [][NextTouch]_vars

\* XI_TouchEnd of a contact whose begin the processor never saw, while no
\* contact touches.
StrayTouchEnd(window, id, position) ==
    /\ ~panicked
    /\ hist.touching = {}
    /\ LET xev == [event |-> window, detail |-> id, deviceid |-> 2,
                   position |-> position]
           r == xinput2_touch(Self, first_touch, num_touch, xev, "XI_TouchEnd")
       IN /\ Store0(process_event(r.p, <<>>, <<>>), "XI_TouchEnd",
                    <<window, id, "stray">>)
          /\ first_touch' = r.first
          /\ num_touch' = r.num
          /\ hist' = HistAfterTouch(hist, id, "XI_TouchEnd")
          /\ UNCHANGED events_loop

NextTouchCount ==
    \/ NextTouch
    \/ \E w \in Windows, id \in TouchIds, position \in TouchPositions :
          StrayTouchEnd(w, id, position)

SpecTouchCount == Init /\ [][NextTouchCount]_vars

\* C39: when every contact begins once before it ends, num_touch is the
\* number of contacts that began and did not end yet, first_touch is None
\* or a contact that touches, and num_touch = 0 implies first_touch = None;
\* a touch-end while no contact touches leaves num_touch at 0.
C39_TouchCount ==
    /\ [](num_touch = Cardinality(hist.touching))
    /\ [](first_touch # None => Unwrap(first_touch) \in hist.touching)
    /\ [](num_touch = 0 => first_touch = None)
    /\ [][ (handled' = "XI_TouchEnd" /\ hist.touching = {}) =>
               num_touch = 0 /\ num_touch' = 0 ]_vars

\* A touch-end with no contact touching: its events are delivered and the
\* count stays 0.
C39_Witness ==
    /\ handled = "XI_TouchEnd" /\ Len(args) = 3
    /\ num_touch = 0 /\ first_touch = None
    /\ Len(out) > 0
\* The step is a touch event of the contact that began while no other
\* contact touched / of another contact while that one still touches.
TouchOfLone ==
    /\ handled' \in TouchPhases /\ args' # <<>>
    /\ \/ handled' = "XI_TouchBegin" /\ hist.touching = {}
       \/ hist.lone = Some(args'[2])
TouchBesideLone ==
    /\ handled' \in TouchPhases /\ args' # <<>>
    /\ hist.lone # None /\ hist.lone # Some(args'[2])
AllPrimary(log, b) == \A j \in 1..Len(log) : log[j].primary = b

\* C18: a contact that begins while no other contact touches is reported
\* primary on every one of its events: its begin, its updates and its end.
C18_LonePrimaryForLife ==
    [][ TouchOfLone => out' # <<>> /\ AllPrimary(out', TRUE) ]_vars

Fraction(n, d) == [num |-> n, den |-> d]
FracNeg(f) == [num |-> 0 - f.num, den |-> f.den]
FracZero == Fraction(0, 1)
FracEq(f, g) == f.num * g.den = g.num * f.den

MouseWheel(w, device_id, x, y) ==
    [ ev |-> "MouseWheel", window |-> w, device_id |-> device_id, x |-> x, y |-> y,
      phase |-> "Moved" ]
AxisMotion(w, device_id, axis, value) ==
    [ ev |-> "AxisMotion", window |-> w, device_id |-> device_id, axis |-> axis,
      value |-> value ]
MouseMoved(w, device_id, position) ==
    [ev |-> "MouseMoved", window |-> w, device_id |-> device_id, position |-> position]

\* scroll_axes.iter_mut().find(|(axis, _)| axis == i): the place of the
\* axis, 0 when the device has no such scroll axis.
AxisIndex(scroll_axes, i) ==
    IF \E k \in 1..Len(scroll_axes) : scroll_axes[k][1] = i
    THEN CHOOSE k \in 1..Len(scroll_axes) :
             scroll_axes[k][1] = i /\ \A j \in 1..(k - 1) : scroll_axes[j][1] # i
    ELSE 0

\* xinput2_mouse_motion, the loop over the valuators of the event
\* (<<axis, value>>, by axis): the scroll axes and the events after it.
RECURSIVE scroll_events_KeepPosition(_, _, _, _)
scroll_events_KeepPosition(scroll_axes, valuators, window, device_id) ==
    IF valuators = <<>> THEN [scroll_axes |-> scroll_axes, events |-> <<>>]
    ELSE LET i == Head(valuators)[1]
             x == Head(valuators)[2]
             k == AxisIndex(scroll_axes, i)
         IN IF k = 0
            THEN scroll_events_KeepPosition(scroll_axes, Tail(valuators), window,
                                            device_id)
            ELSE LET info == scroll_axes[k][2]
                     delta == Fraction(x - info.position, info.increment)
                     e == IF info.orientation = "Horizontal"
                          THEN MouseWheel(window, device_id, FracNeg(delta), FracZero)
                          ELSE MouseWheel(window, device_id, FracZero, FracNeg(delta))
                     rest == scroll_events_KeepPosition(scroll_axes, Tail(valuators),
                                                        window, device_id)
                 IN [ scroll_axes |-> rest.scroll_axes,
                      events |-> <<e>> \o rest.events ]
RECURSIVE scroll_events(_, _, _, _)
scroll_events(scroll_axes, valuators, window, device_id) ==
    IF valuators = <<>> THEN [scroll_axes |-> scroll_axes, events |-> <<>>]
    ELSE LET i == Head(valuators)[1]
             x == Head(valuators)[2]
             k == AxisIndex(scroll_axes, i)
         IN IF k = 0
            THEN scroll_events(scroll_axes, Tail(valuators), window, device_id)
            ELSE LET info == scroll_axes[k][2]
                     delta == Fraction(x - info.position, info.increment)
                     axes1 == [scroll_axes EXCEPT
                                 ![k] = <<i, [info EXCEPT !.position = x]>>]
                     \* X11 vertical scroll coordinates are opposite to winit's
                     e == IF info.orientation = "Horizontal"
                          THEN MouseWheel(window, device_id, FracNeg(delta), FracZero)
                          ELSE MouseWheel(window, device_id, FracZero, FracNeg(delta))
                     rest == scroll_events(axes1, Tail(valuators), window, device_id)
                 IN [ scroll_axes |-> rest.scroll_axes,
                      events |-> <<e>> \o rest.events ]

RECURSIVE DeliverAll(_, _)
DeliverAll(p, events) ==
    IF events = <<>> THEN p
    ELSE DeliverAll(Deliver(p, Head(events)), Tail(events))

\* xinput2_mouse_motion, after the modifiers of the event were applied
\* (process_xevent, XI_Motion)
xinput2_mouse_motion(p, event) ==
    LET p0 == update_mods_from_xinput2_event(p, event.mods, event.group, FALSE)
        window == event.event
        r == with_window(p0, window)
    IN IF ~r.found THEN [r.p EXCEPT !.note = "no_window"]
       ELSE LET \* util::maybe_change(&mut cursor_pos, new_cursor_pos)
                cursor_moved == r.p.windows[window].cursor_pos # Some(event.position)
                p1 == [r.p EXCEPT !.windows[window].cursor_pos = Some(event.position)]
                p2 == IF cursor_moved
                      THEN Deliver(p1, PointerMoved(window, Some(event.deviceid),
                                                    event.position))
                      ELSE p1
            IN IF event.sourceid \notin DOMAIN p2.devices
               THEN [p2 EXCEPT !.note = "no_device"]
               ELSE LET s == scroll_events(p2.devices[event.sourceid].scroll_axes,
                                           event.valuators, window,
                                           Some(event.deviceid))
                    IN DeliverAll(
                           [p2 EXCEPT !.devices[event.sourceid].scroll_axes =
                                          s.scroll_axes],
                           s.events)

\* EventsLoop, XI_Motion: the loop over the valuators; an axis that is no
\* scroll axis gives AxisMotion.
RECURSIVE loop_scroll_events(_, _, _, _)
loop_scroll_events(scroll_axes, valuators, wid, did) ==
    IF valuators = <<>> THEN [scroll_axes |-> scroll_axes, events |-> <<>>]
    ELSE LET i == Head(valuators)[1]
             value == Head(valuators)[2]
             k == AxisIndex(scroll_axes, i)
         IN IF k = 0
            THEN LET rest == loop_scroll_events(scroll_axes, Tail(valuators), wid, did)
                 IN [ scroll_axes |-> rest.scroll_axes,
                      events |-> <<AxisMotion(wid, did, i, value)>> \o rest.events ]
            ELSE LET info == scroll_axes[k][2]
                     delta == Fraction(value - info.position, info.increment)
                     axes1 == [scroll_axes EXCEPT
                                 ![k] = <<i, [info EXCEPT !.position = value]>>]
                     e == IF info.orientation = "Horizontal"
                          THEN MouseWheel(wid, did, delta, FracZero)
                          ELSE MouseWheel(wid, did, FracZero, delta)
                     rest == loop_scroll_events(axes1, Tail(valuators), wid, did)
                 IN [ scroll_axes |-> rest.scroll_axes,
                      events |-> <<e>> \o rest.events ]

\* EventsLoop, XI_Motion: the loop's state, its events and whether an
\* unwrap() failed.
loop_xi_motion(l, xev) ==
    IF xev.event \notin DOMAIN l.cursor_pos
    THEN \* windows.get_mut(..).unwrap()
         [ l |-> l, events |-> <<>>, panicked |-> TRUE ]
    ELSE LET moved == l.cursor_pos[xev.event] # Some(xev.position)
             l1 == [l EXCEPT !.cursor_pos[xev.event] = Some(xev.position)]
             e1 == IF moved THEN <<MouseMoved(xev.event, xev.deviceid, xev.position)>>
                   ELSE <<>>
         IN IF xev.sourceid \notin DOMAIN l1.devices
            THEN \* devices.get_mut(..).unwrap(), after the callback
                 [ l |-> l1, events |-> e1, panicked |-> TRUE ]
            ELSE LET s == loop_scroll_events(l1.devices[xev.sourceid].scroll_axes,
                                             xev.valuators, xev.event, xev.deviceid)
                 IN [ l |-> [l1 EXCEPT !.devices[xev.sourceid].scroll_axes =
                                           s.scroll_axes],
                      events |-> e1 \o s.events, panicked |-> FALSE ]

\* The valuator values of the motion events, and the valuators one event
\* carries: none, the x axis, one scroll axis or both.
ScrollValues == {0, 120, 240}
MotionValuators ==
    { <<>>, << <<0, 120>> >> }
    \cup { << <<3, v>> >> : v \in ScrollValues }
    \cup { << <<2, h>> >> : h \in {0, 60} }
    \cup { << <<2, 60>>, <<3, v>> >> : v \in ScrollValues }
\* The motion events: on window 1 from device 4 with every position and
\* valuators, and one on a window (3) and one from a source device (9) the
\* event loop does not know.
MotionInput(window, sourceid, position, valuators) ==
    [ window |-> window, sourceid |-> sourceid, position |-> position,
      valuators |-> valuators ]
MotionInputs ==
    { MotionInput(1, 4, pos, v) : pos \in {0, 1}, v \in MotionValuators }
    \cup { MotionInput(3, 4, 0, << <<3, 120>> >>),
           MotionInput(1, 9, 1, << <<3, 120>> >>) }

MotionXev(window, sourceid, position, valuators) ==
    [ event |-> window, deviceid |-> 2, sourceid |-> sourceid,
      position |-> position, valuators |-> valuators,
      mods |-> [base |-> {}, latched |-> {}, locked |-> {}],
      group |-> [base |-> 0, latched |-> 0, locked |-> 0] ]

\* The sum of the line deltas (their numerators) the MouseWheel events of
\* a log add to the sums `sum` of the scroll axes 2 (horizontal) and 3.
RECURSIVE WheelSum(_, _)
WheelSum(sum, log) ==
    IF log = <<>> THEN sum
    ELSE LET e == Head(log)
         IN WheelSum(IF e.ev = "MouseWheel"
                     THEN [sum EXCEPT ![2] = @ + e.x.num, ![3] = @ + e.y.num]
                     ELSE sum,
                     Tail(log))

\* GenericEvent, XI_Motion
Motion(window, sourceid, position, valuators) ==
    /\ ~panicked
    /\ LET xev == MotionXev(window, sourceid, position, valuators)
           q == process_event(xinput2_mouse_motion(Self, xev), <<>>, <<>>)
       IN /\ Store0(q, "XI_Motion", <<window, sourceid, valuators>>)
          /\ hist' = [hist EXCEPT !.wheel = WheelSum(@, q.out)]
          /\ UNCHANGED <<num_touch, first_touch, events_loop>>

\* The same event in the older event loop.
LoopMotion(window, sourceid, position, valuators) ==
    /\ ~panicked
    /\ LET xev == MotionXev(window, sourceid, position, valuators)
           r == loop_xi_motion(events_loop, xev)
       IN /\ Store0([Self EXCEPT !.out = r.events, !.panicked = r.panicked,
                                 !.note = IF r.panicked THEN "panic" ELSE "done"],
                    "EventsLoop::XI_Motion", <<window, sourceid, valuators>>)
          /\ events_loop' = r.l
          /\ hist' = [hist EXCEPT !.loop_wheel = WheelSum(@, r.events)]
          /\ UNCHANGED <<num_touch, first_touch>>

NextScroll ==
    \/ \E i \in MotionInputs : Motion(i.window, i.sourceid, i.position, i.valuators)
    \/ \E i \in MotionInputs :
          LoopMotion(i.window, i.sourceid, i.position, i.valuators)

SpecScroll == Init /\ [][NextScroll]_vars

\* The scroll axes of the source device of a motion event that reaches the
\* loop over the valuators, before the event, and the valuators on them.
AxisInfo(scroll_axes, i) == scroll_axes[AxisIndex(scroll_axes, i)][2]
ScrollValuators(scroll_axes, valuators) ==
    SelectSeq(valuators, LAMBDA v : AxisIndex(scroll_axes, v[1]) # 0)
Wheels(log) == SelectSeq(log, LAMBDA e : e.ev = "MouseWheel")
\* The line delta of a MouseWheel event on the axis of orientation `o`.
LineDelta(e, o) == IF o = "Horizontal" THEN e.x ELSE e.y
OtherDelta(e, o) == IF o = "Horizontal" THEN e.y ELSE e.x

\* The MouseWheel events `log` of a motion event are, one for each valuator
\* on a scroll axis, sign * (v - p) / inc with p the position of `before`,
\* and the positions of `after` are the values v.
WheelsAre(log, before, after, valuators, sign) ==
    LET S == ScrollValuators(before, valuators)
        W == Wheels(log)
    IN /\ Len(W) = Len(S)
       /\ \A k \in 1..Len(S) :
            LET info == AxisInfo(before, S[k][1])
            IN /\ FracEq(LineDelta(W[k], info.orientation),
                         Fraction(sign * (S[k][2] - info.position), info.increment))
               /\ OtherDelta(W[k], info.orientation).num = 0
               /\ AxisInfo(after, S[k][1]).position = S[k][2]
\* The deltas of an axis sum to sign * (position - first position) / inc.
SumsAre(sum, after, sign) ==
    \A i \in {2, 3} :
        sum[i] = sign * (AxisInfo(after, i).position
                           - AxisInfo(ScrollAxesNew, i).position)

\* The step is a motion event for a window and a source device the
\* processor / the older event loop knows.
MotionStep ==
    /\ handled' = "XI_Motion" /\ args'[1] \in DOMAIN windows
    /\ args'[2] \in DOMAIN devices
LoopMotionStep ==
    /\ handled' = "EventsLoop::XI_Motion" /\ args'[1] \in DOMAIN events_loop.cursor_pos
    /\ args'[2] \in DOMAIN events_loop.devices

\* C20 as stated: every motion event with a value v on a scroll axis gives
\* a MouseWheel line delta of (v - p) / inc and stores v as the position,
\* and the deltas sum to (last value - first position) / inc.
C20_DeltaIsDifference ==
    [][ /\ MotionStep =>
              /\ WheelsAre(out', devices[args'[2]].scroll_axes,
                           devices'[args'[2]].scroll_axes, args'[3], 1)
              /\ SumsAre(hist'.wheel, devices'[args'[2]].scroll_axes, 1)
        /\ LoopMotionStep =>
              /\ WheelsAre(out', events_loop.devices[args'[2]].scroll_axes,
                           events_loop'.devices[args'[2]].scroll_axes, args'[3], 1)
              /\ SumsAre(hist'.loop_wheel,
                         events_loop'.devices[args'[2]].scroll_axes, 1) ]_vars

\* C20: in the event processor the line delta is the negated difference,
\* -(v - p) / inc, and the deltas sum to -(last value - first position) /
\* inc; in the older event loop it is (v - p) / inc.  Both store v.
C20_DeltaIsNegatedDifference ==
    [][ /\ MotionStep =>
              /\ WheelsAre(out', devices[args'[2]].scroll_axes,
                           devices'[args'[2]].scroll_axes, args'[3], 0 - 1)
              /\ SumsAre(hist'.wheel, devices'[args'[2]].scroll_axes, 0 - 1)
        /\ LoopMotionStep =>
              /\ WheelsAre(out', events_loop.devices[args'[2]].scroll_axes,
                           events_loop'.devices[args'[2]].scroll_axes, args'[3], 1)
              /\ SumsAre(hist'.loop_wheel,
                         events_loop'.devices[args'[2]].scroll_axes, 1) ]_vars
\* The processor took the vertical axis (increment 120) from 0 to 240, in
\* one event or more, and the last event's delta is a whole line or two.
C20_Witness ==
    /\ handled = "XI_Motion" /\ outcome = "done"
    /\ AxisInfo(devices[4].scroll_axes, 3).position = 240
    /\ hist.wheel[3] = 0 - 240
    /\ \E j \in 1..Len(out) :
          /\ out[j].ev = "MouseWheel"
          /\ FracEq(out[j].y, Fraction(0 - 2, 1)) \/ FracEq(out[j].y, Fraction(0 - 1, 1))

(***************************************************************************)
(* ConfigureNotify: moves, resizes and scale-factor changes                *)
(***************************************************************************)
Moved(w, position) == [ev |-> "Moved", window |-> w, position |-> position]
SurfaceResized(w, size) == [ev |-> "SurfaceResized", window |-> w, size |-> size]
ScaleFactorChanged(w, scale_factor, surface_size) ==
    [ ev |-> "ScaleFactorChanged", window |-> w, scale_factor |-> scale_factor,
      surface_size |-> surface_size ]

\* frame_extents.inner_pos_to_outer(x, y): the outer position is a function
\* of the frame extents and the inner position, kept as the pair of both.
inner_pos_to_outer(frame_extents, inner) ==
    [frame_extents |-> frame_extents, inner |-> inner]

\* What the server, the window manager and the application answer during a
\* ConfigureNotify: the frame extents get_frame_extents_heuristic finds,
\* the monitor of the window (`ok` FALSE: none is found), the size
\* adjust_for_dpi proposes, the size the callback of ScaleFactorChanged
\* writes (None: it writes nothing), and whether the window manager is Xfwm4.
ConfigureEnv(frame_extents, monitor, adjusted, written, xfwm) ==
    [ frame_extents |-> frame_extents, monitor |-> monitor, adjusted |-> adjusted,
      written |-> written, xfwm |-> xfwm ]
Monitor(scale_factor) == [ok |-> TRUE, dummy |-> FALSE, scale_factor |-> scale_factor]
DummyMonitor == [ok |-> TRUE, dummy |-> TRUE, scale_factor |-> 1]
NoMonitor == [ok |-> FALSE, dummy |-> FALSE, scale_factor |-> 1]

\* configure_notify, from the test of is_synthetic on: `w` is the shared
\* state of the window, `resized` what the first part found.  The result is
\* the processor and the final `resized`.
configure_scale_factor_KeepResized(p, xwindow, xev, env, new_outer_position, resized) ==
    LET w == p.windows[xwindow]
        old_surface_size == IF w.dpi_adjusted # None THEN Unwrap(w.dpi_adjusted)
                            ELSE xev.size
        last_scale_factor == w.scale_factor
    IN IF ~env.monitor.ok
       THEN [ p |-> [p EXCEPT !.panicked = TRUE, !.note = "panic"],
              resized |-> resized ]
       ELSE LET new_scale_factor == IF env.monitor.dummy THEN last_scale_factor
                                    ELSE env.monitor.scale_factor
                p1 == IF env.monitor.dummy THEN p
                      ELSE [p EXCEPT !.windows[xwindow].scale_factor =
                                        env.monitor.scale_factor]
            IN IF last_scale_factor = new_scale_factor
               THEN [p |-> p1, resized |-> resized]
               ELSE LET p2 == Deliver(p1, ScaleFactorChanged(xwindow, new_scale_factor,
                                                             env.adjusted))
                        new_surface_size == IF env.written = None THEN env.adjusted
                                            ELSE Unwrap(env.written)
                    IN IF new_surface_size # old_surface_size
                       THEN [ p |-> [p2 EXCEPT !.windows[xwindow].dpi_adjusted =
                                                  Some(new_surface_size)],
                              resized |-> resized ]
                       ELSE [p |-> p2, resized |-> resized]
configure_scale_factor(p, xwindow, xev, env, new_outer_position, resized) ==
    LET w == p.windows[xwindow]
        \* shared_state_lock.dpi_adjusted.unwrap_or((xev.width, xev.height))
        old_surface_size == IF w.dpi_adjusted # None THEN Unwrap(w.dpi_adjusted)
                            ELSE xev.size
        last_scale_factor == w.scale_factor
    IN IF ~env.monitor.ok
       THEN \* .expect("Failed to find monitor for window")
            [ p |-> [p EXCEPT !.panicked = TRUE, !.note = "panic"],
              resized |-> resized ]
       ELSE LET new_scale_factor == IF env.monitor.dummy THEN last_scale_factor
                                    ELSE env.monitor.scale_factor
                p1 == IF env.monitor.dummy THEN p
                      ELSE [p EXCEPT !.windows[xwindow].scale_factor =
                                        env.monitor.scale_factor]
            IN IF last_scale_factor = new_scale_factor
               THEN [p |-> p1, resized |-> resized]
               ELSE LET p2 == Deliver(p1, ScaleFactorChanged(xwindow, new_scale_factor,
                                                             env.adjusted))
                        \* *surface_size.lock().unwrap()
                        new_surface_size == IF env.written = None THEN env.adjusted
                                            ELSE Unwrap(env.written)
                    IN IF new_surface_size # old_surface_size
                       THEN \* request_surface_size_physical(new_surface_size)
                            [ p |-> [p2 EXCEPT !.windows[xwindow].dpi_adjusted =
                                                  Some(new_surface_size)],
                              resized |-> TRUE ]
                       ELSE [p |-> p2, resized |-> resized]

\* configure_notify: `moved`, for the shared state `w` of the window
configure_moved_AnyMessage(w, xev) == w.inner_position # Some(xev.position)
configure_moved(w, xev) == xev.send_event /\ w.inner_position # Some(xev.position)

\* configure_notify.  The window's cursor_hittest is not set by any event,
\* so the hit test is not reloaded.  The SurfaceResized event carries the
\* new_surface_size of the function's start, the size of the message: the
\* new_surface_size of the scale-factor block is local to that block.
configure_notify(p, xev, env) ==
    LET xwindow == xev.window
        r == with_window(p, xwindow)
    IN IF ~r.found THEN [r.p EXCEPT !.note = "no_window"]
       ELSE
       LET w == r.p.windows[xwindow]
           is_synthetic == xev.send_event
           new_surface_size == xev.size
           new_inner_position == xev.position
           resized == w.size # Some(new_surface_size)
           w1 == [w EXCEPT !.size = Some(new_surface_size)]
           moved == configure_moved(w1, xev)
           w2 == IF is_synthetic
                 THEN [w1 EXCEPT !.inner_position = Some(new_inner_position)]
                 ELSE IF w1.inner_position_rel_parent # Some(new_inner_position)
                 THEN [w1 EXCEPT !.inner_position_rel_parent = Some(new_inner_position),
                                 !.inner_position = None,
                                 !.frame_extents = None]
                 ELSE w1
           keep == w2.position # None /\ ~moved
           frame_extents == IF w2.frame_extents # None THEN Unwrap(w2.frame_extents)
                            ELSE env.frame_extents
           outer == inner_pos_to_outer(frame_extents, new_inner_position)
           w3 == IF keep THEN w2
                 ELSE [w2 EXCEPT !.frame_extents = Some(frame_extents),
                                 !.position = Some(outer)]
           new_outer_position == IF keep THEN Unwrap(w2.position) ELSE outer
           p1 == [r.p EXCEPT !.windows[xwindow] = w3]
           p2 == IF moved THEN Deliver(p1, Moved(xwindow, outer)) ELSE p1
           s == IF is_synthetic
                THEN configure_scale_factor(p2, xwindow, xev, env, new_outer_position,
                                            resized)
                ELSE [p |-> p2, resized |-> resized]
       IN IF s.p.panicked THEN s.p
          ELSE LET adjusted == s.p.windows[xwindow].dpi_adjusted
                   \* request_surface_size_physical(adjusted) when the sizes
                   \* differ under Xfwm4
                   p3 == IF adjusted # None
                            /\ (new_surface_size = Unwrap(adjusted) \/ ~env.xfwm)
                         THEN [s.p EXCEPT !.windows[xwindow].dpi_adjusted = None]
                         ELSE s.p
               IN IF s.resized
                  THEN Deliver(p3, SurfaceResized(xwindow, new_surface_size))
                  ELSE p3

\* EventsLoop, ConfigureNotify: the loop's state, its events and whether
\* an unwrap() failed.
loop_configure_notify(l, xev) ==
    IF xev.window \notin DOMAIN l.config
    THEN \* windows.get_mut(..).unwrap()
         [ l |-> l, events |-> <<>>, panicked |-> TRUE ]
    ELSE LET config == l.config[xev.window]
             first == config = None
             resized == first \/ Unwrap(config).size # xev.size
             moved == first \/ Unwrap(config).position # xev.position
         IN [ l |-> [l EXCEPT !.config[xev.window] =
                                 Some([size |-> xev.size, position |-> xev.position])],
              events |-> (IF resized THEN <<SurfaceResized(xev.window, xev.size)>>
                          ELSE <<>>)
                         \o (IF moved THEN <<Moved(xev.window, xev.position)>>
                             ELSE <<>>),
              panicked |-> FALSE ]

\* The sizes and positions of the messages, the frame extents the server
\* finds, the monitors, and the sizes the application writes.
ConfigSizes == { <<10, 10>>, <<20, 20>> }
ConfigPositions == { <<0, 0>>, <<5, 0>> }
FrameExtents == {0, 1}
Monitors == { Monitor(1), Monitor(2), DummyMonitor, NoMonitor }
WrittenSizes == { None, Some(<<30, 30>>) }
\* Window 3 is not known to the event loop.
ConfigWindows == {1, 3}

ConfigureXev(window, send_event, size, position) ==
    [window |-> window, send_event |-> send_event, size |-> size, position |-> position]

\* ConfigureNotify; `args` keeps the message, the answers and the size
\* cached before.
ConfigureNotify(window, send_event, size, position, env) ==
    /\ ~panicked
    /\ LET xev == ConfigureXev(window, send_event, size, position)
           q == process_event(configure_notify(Self, xev, env), <<>>, <<>>)
           cached == IF window \in DOMAIN windows THEN windows[window].size ELSE None
       IN /\ Store0(q, "ConfigureNotify", <<xev, env, cached>>)
          /\ UNCHANGED <<num_touch, first_touch, hist, events_loop>>

\* The same message in the older event loop.
LoopConfigureNotify(window, send_event, size, position) ==
    /\ ~panicked
    /\ LET xev == ConfigureXev(window, send_event, size, position)
           r == loop_configure_notify(events_loop, xev)
       IN /\ Store0([Self EXCEPT !.out = r.events, !.panicked = r.panicked,
                                 !.note = IF r.panicked THEN "panic" ELSE "done"],
                    "EventsLoop::ConfigureNotify", <<xev>>)
          /\ events_loop' = r.l
          /\ UNCHANGED <<num_touch, first_touch, hist>>

\* The scale factor of window 1 changes with monitor `m`.
ScaleChanges(m) == m.ok /\ ~m.dummy /\ m.scale_factor # windows[1].scale_factor

NextConfigure ==
    \/ \E size \in ConfigSizes, position \in ConfigPositions,
          fe \in IF windows[1].frame_extents = None THEN FrameExtents ELSE {0} :
          \/ ConfigureNotify(1, FALSE, size, position,
                             ConfigureEnv(fe, Monitor(1), size, None, FALSE))
          \/ \E m \in Monitors :
                \E adjusted \in IF ScaleChanges(m) THEN ConfigSizes ELSE {size},
                   written \in IF ScaleChanges(m) THEN WrittenSizes ELSE {None},
                   xfwm \in IF ScaleChanges(m) \/ windows[1].dpi_adjusted # None
                            THEN BOOLEAN ELSE {FALSE} :
                   ConfigureNotify(1, TRUE, size, position,
                                   ConfigureEnv(fe, m, adjusted, written, xfwm))
    \/ ConfigureNotify(3, TRUE, <<10, 10>>, <<0, 0>>,
                       ConfigureEnv(0, Monitor(1), <<10, 10>>, None, FALSE))
    \/ \E w \in ConfigWindows, size \in ConfigSizes :
          LoopConfigureNotify(w, FALSE, size, <<0, 0>>)

SpecConfigure == Init /\ [][NextConfigure]_vars

\* The step is a ConfigureNotify for a live window that the handler ran to
\* its end / the same in the older event loop.
ConfigureStep ==
    /\ handled' = "ConfigureNotify" /\ ~panicked'
    /\ args'[1].window \in DOMAIN windows /\ windows[args'[1].window].alive
LoopConfigureStep ==
    /\ handled' = "EventsLoop::ConfigureNotify" /\ ~panicked'
Has(log, ev) == \E j \in 1..Len(log) : log[j].ev = ev

\* C21 as stated: a ConfigureNotify for a live window gives a Moved event
\* if and only if the outer position computed for it differs from the
\* outer position cached before.
C21_MovedIffOuterChanged ==
    [][ ConfigureStep =>
          (Has(out', "Moved")
             <=> windows'[args'[1].window].position # windows[args'[1].window].position)
      ]_vars

\* C21: a ConfigureNotify for a live window gives a Moved event if and only
\* if the message is synthetic and its position differs from the cached
\* inner position, which a non-synthetic message with a new position
\* relative to the parent clears; the event carries the outer position
\* computed for the message, which is the one cached afterwards.
C21_MovedIffSyntheticInnerChanged ==
    [][ ConfigureStep =>
          LET w == args'[1].window
              xev == args'[1]
          IN /\ Has(out', "Moved")
                  <=> (xev.send_event /\ windows[w].inner_position # Some(xev.position))
             /\ \A j \in 1..Len(out') :
                   out'[j].ev = "Moved" => Some(out'[j].position) = windows'[w].position
             /\ (~xev.send_event
                   /\ windows[w].inner_position_rel_parent # Some(xev.position))
                  => windows'[w].inner_position = None
      ]_vars
\* A synthetic message gave Moved with the outer position that was cached
\* already: the inner position had been cleared by a non-synthetic message.
C21_Witness ==
    /\ handled = "ConfigureNotify" /\ Has(out, "Moved")
    /\ windows[1].inner_position_rel_parent # None
    /\ windows[1].inner_position = Some(args[1].position)

\* The sizes of a ConfigureNotify step with a changed scale factor: the
\* one held before the callback (old_surface_size) and the one after it.
OldSurfaceSize(w, xev) ==
    IF windows[w].dpi_adjusted # None THEN Unwrap(windows[w].dpi_adjusted)
    ELSE xev.size
NegotiatedSize(env) == IF env.written = None THEN env.adjusted ELSE Unwrap(env.written)

\* C22 as stated: a ConfigureNotify for a live window gives SurfaceResized
\* if and only if the size of the message differs from the cached size.
C22_ResizedIffSizeChanged ==
    [][ /\ ConfigureStep =>
              (Has(out', "SurfaceResized")
                 <=> windows[args'[1].window].size # Some(args'[1].size))
        /\ LoopConfigureStep =>
              (Has(out', "SurfaceResized")
                 <=> \/ events_loop.config[args'[1].window] = None
                     \/ Unwrap(events_loop.config[args'[1].window]).size # args'[1].size)
      ]_vars

\* C22: in the event processor SurfaceResized is given if and only if the
\* size of the message differs from the cached size, or the message is
\* synthetic, the scale factor changed and the size left by the callback
\* of ScaleFactorChanged differs from the size held before it.  In the
\* older event loop it is given if and only if the size differs from the
\* cached one or none was cached.
C22_ResizedIffSizeOrScaleChanged ==
    [][ /\ ConfigureStep =>
              LET w == args'[1].window
                  xev == args'[1]
                  env == args'[2]
              IN Has(out', "SurfaceResized")
                   <=> \/ windows[w].size # Some(xev.size)
                       \/ /\ xev.send_event
                          /\ Has(out', "ScaleFactorChanged")
                          /\ NegotiatedSize(env) # OldSurfaceSize(w, xev)
        /\ LoopConfigureStep =>
              (Has(out', "SurfaceResized")
                 <=> \/ events_loop.config[args'[1].window] = None
                     \/ Unwrap(events_loop.config[args'[1].window]).size # args'[1].size)
      ]_vars
\* SurfaceResized came with a message of the cached size, after the
\* application wrote a size in the callback of ScaleFactorChanged.
C22_Witness ==
    /\ handled = "ConfigureNotify" /\ Has(out, "SurfaceResized")
    /\ Has(out, "ScaleFactorChanged")
    /\ args[3] = Some(args[1].size)
    /\ args[2].written # None

\* C23: when the callback of ScaleFactorChanged writes a size other than
\* the proposed one, the SurfaceResized event of that ConfigureNotify
\* carries the written size.
C23_ResizedCarriesNegotiated ==
    [][ ( /\ ConfigureStep
          /\ Has(out', "ScaleFactorChanged")
          /\ args'[2].written # None
          /\ args'[2].written # Some(args'[2].adjusted) )
        => /\ Has(out', "SurfaceResized")
           /\ \A j \in 1..Len(out') :
                 out'[j].ev = "SurfaceResized"
                    => out'[j].size = Unwrap(args'[2].written) ]_vars

(***************************************************************************)
(* The input method: commits of key events and the queue of IME events     *)
(***************************************************************************)
\* What the input method has queued when process_event looks: events for
\* window 1, one or two.
ImeEvent(kind) == [event |-> kind, window |-> 1, text |-> "x"]
ImeQueues ==
    {<<>>}
    \cup { <<ImeEvent(k)>> : k \in {"Enabled", "Start", "Update", "End", "Disabled"} }
    \cup { <<ImeEvent("Start"), ImeEvent("Update")>>,
           <<ImeEvent("Update"), ImeEvent("End")>>,
           <<ImeEvent("End"), ImeEvent("Update")>> }
ImeKeycodes == {0, 37, 38}

\* Whether an IME Start is among the queued events.
HasStart(events) == \E j \in 1..Len(events) : events[j].event = "Start"
HasKind(log, kind) == \E j \in 1..Len(log) : log[j].ev = "Ime" /\ log[j].kind = kind

\* The history after a call of process_event: a Commit was delivered and
\* no Start was taken from the queue since.
HistAfterIme(h, log, events) ==
    [ h EXCEPT !.committed = IF HasStart(events) THEN FALSE
                             ELSE IF HasKind(log, "Commit") THEN TRUE
                             ELSE @ ]

\* KeyPress / KeyRelease with what the input method has queued; `args`
\* keeps the queue, the answer of XFilterEvent and the key code.
ImeKeyEvent(state, keycode, filter, written, requests, events) ==
    /\ ~panicked
    /\ LET xev == [keycode |-> keycode, state |-> 0]
           q == process_event(
                    process_key_xevent(Self, xev, state, filter, TRUE, written),
                    requests, events)
       IN /\ Len(q.xfiltered_modifiers) <= MaxFiltered
          /\ Store0(q, IF state = "Pressed" THEN "KeyPress" ELSE "KeyRelease",
                    <<events, filter, keycode>>)
          /\ hist' = HistAfterIme(hist, q.out, events)
          /\ UNCHANGED <<num_touch, first_touch, events_loop>>

\* An event no handler is for, with what the input method has queued.
ImeOtherEvent(requests, events) ==
    /\ ~panicked
    /\ LET q == process_event([Self EXCEPT !.note = "ignored"], requests, events)
       IN /\ Store0(q, "ignored", <<events, FALSE, 0>>)
          /\ hist' = HistAfterIme(hist, q.out, events)
          /\ UNCHANGED <<num_touch, first_touch, events_loop>>

NextIme ==
    \/ \E state \in {"Pressed", "Released"}, keycode \in ImeKeycodes,
          events \in ImeQueues :
          \E filter \in IF active_window = Some(1) /\ 1 \in ime_allowed
                        THEN BOOLEAN ELSE {FALSE},
             written \in IF keycode = 0 \/ is_composing THEN Texts ELSE {""} :
             ImeKeyEvent(state, keycode, filter, written, <<>>, events)
    \/ \E requests \in ImeRequestQueues, events \in ImeQueues :
          ImeOtherEvent(requests, events)
    \/ FocusIn(1, 3, TRUE, TRUE, <<>>, None)

SpecIme == Init /\ [][NextIme]_vars

\* The step is a call of process_event with a queue of IME events.
ImeStep ==
    /\ handled' \in {"KeyPress", "KeyRelease", "ignored"} /\ args' # <<>>
    /\ ~panicked'
IsIme(e, kind, text) == e.ev = "Ime" /\ e.kind = kind /\ e.text = text

\* C24: every Commit delivered to a window comes right after an empty
\* Preedit for that window; after a Commit the processor does not compose;
\* and an IME Update that comes after a Commit with no Start since gives
\* no Preedit.
C24_CommitClosesPreedit ==
    [][ ImeStep =>
          /\ \A j \in 1..Len(out') :
                (out'[j].ev = "Ime" /\ out'[j].kind = "Commit")
                  => /\ j > 1
                     /\ IsIme(out'[j - 1], "Preedit", "")
                     /\ out'[j - 1].window = out'[j].window
          /\ (HasKind(out', "Commit") /\ ~HasStart(args'[1])) => ~is_composing'
          /\ (hist.committed /\ ~HasStart(args'[1]))
             => \A j \in 1..Len(out') :
                   (out'[j].ev = "Ime" /\ out'[j].kind = "Preedit")
                     => out'[j].text = "" ]_vars
\* After a Commit an Update was taken from the queue and gave nothing.
C24_Witness ==
    /\ hist.committed /\ handled = "ignored"
    /\ args[1] = <<ImeEvent("Update")>> /\ out = <<>>

\* The events the queue of the input method gives when drained from its
\* front, with `composing` the processor's is_composing before.
RECURSIVE ImeExpected(_, _)
ImeExpected(events, composing) ==
    IF events = <<>> THEN <<>>
    ELSE LET e == Head(events)
             rest(c) == ImeExpected(Tail(events), c)
         IN CASE e.event = "Enabled" -> <<Ime(e.window, "Enabled", "")>> \o rest(composing)
              [] e.event = "Start" -> <<Ime(e.window, "Preedit", "")>> \o rest(TRUE)
              [] e.event = "Update" ->
                    (IF composing THEN <<Ime(e.window, "Preedit", e.text)>> ELSE <<>>)
                    \o rest(composing)
              [] e.event = "End" -> <<Ime(e.window, "Preedit", "")>> \o rest(FALSE)
              [] e.event = "Disabled" -> <<Ime(e.window, "Disabled", "")>> \o rest(FALSE)
Untagged(log) ==
    [ j \in 1..Len(log) |-> [k \in DOMAIN log[j] \ {"stored"} |-> log[j][k]] ]

process_xevent_Handle(p, filter, q) == q
process_xevent(p, filter, q) ==
    IF filter THEN [p EXCEPT !.note = "filtered"] ELSE q

\* KeyPress / KeyRelease; `args` keeps the kind of the event, the answer of
\* XFilterEvent and the key code.
FilterKey(state, keycode, filter) ==
    /\ ~panicked
    /\ LET xev == [keycode |-> keycode, state |-> 0]
           q == process_event(
                    process_key_xevent(Self, xev, state, filter, TRUE, ""),
                    <<>>, <<>>)
       IN /\ Len(q.xfiltered_modifiers) <= MaxFiltered
          /\ Store(q, IF state = "Pressed" THEN "KeyPress" ELSE "KeyRelease",
                   <<"key", filter, keycode>>)

\* GenericEvent, XI_FocusIn and XI_FocusOut
FilterFocus(window, in, filter) ==
    /\ ~panicked
    /\ LET xev == [event |-> window, deviceid |-> 3, position |-> 0]
           q == IF in THEN xinput2_focused(Self, xev, TRUE, TRUE, <<38>>, None)
                ELSE xinput2_unfocused(Self, xev, TRUE, TRUE, <<>>)
       IN Store(process_event(process_xevent(Self, filter, q), <<>>, <<>>),
                IF in THEN "XI_FocusIn" ELSE "XI_FocusOut", <<"other", filter, 0>>)

\* GenericEvent, XI_TouchBegin | XI_TouchEnd
FilterTouch(window, id, phase, filter) ==
    /\ ~panicked
    /\ IF phase = "XI_TouchBegin"
       THEN id \notin hist.touching /\ Cardinality(hist.touching) < MaxTouches
       ELSE id \in hist.touching
    /\ LET xev == [event |-> window, detail |-> id, deviceid |-> 2, position |-> 0]
           r == xinput2_touch(Self, first_touch, num_touch, xev, phase)
           q == process_xevent(Self, filter, r.p)
           ran == q.note # "filtered"
       IN /\ Store0(process_event(q, <<>>, <<>>), phase, <<"other", filter, 0>>)
          /\ first_touch' = IF ran THEN r.first ELSE first_touch
          /\ num_touch' = IF ran THEN r.num ELSE num_touch
          /\ hist' = IF ran THEN HistAfterTouch(hist, id, phase) ELSE hist
          /\ UNCHANGED events_loop

\* ClientMessage that the input method claims.
FilterClientMessage ==
    /\ ~panicked
    /\ Store(process_event(process_xevent(Self, TRUE, Self), <<>>, <<>>),
             "ClientMessage", <<"other", TRUE, 0>>)

NextFilter ==
    \/ \E state \in {"Pressed", "Released"}, keycode \in {37, 38},
          filter \in BOOLEAN : FilterKey(state, keycode, filter)
    \/ \E window \in {1}, in \in BOOLEAN, filter \in BOOLEAN :
          FilterFocus(window, in, filter)
    \/ \E phase \in {"XI_TouchBegin", "XI_TouchEnd"}, filter \in BOOLEAN :
          FilterTouch(1, 1, phase, filter)
    \/ FilterClientMessage
    \/ XdndEnter(1, 5 * 2^VersionShift, <<TextUriList>>, [ok |-> FALSE, list |-> <<>>])
    \/ \E requests \in ImeRequestQueues : ImeOtherEvent(requests, <<>>)

SpecFilter == Init /\ [][NextFilter]_vars

\* The step is a native event offered, or not, to the input method.
FilterStep ==
    /\ handled' \in {"KeyPress", "KeyRelease", "XI_FocusIn", "XI_FocusOut",
                     "XI_TouchBegin", "XI_TouchEnd", "ClientMessage"}
    /\ Len(args') = 3 /\ args'[1] \in {"key", "other"}
\* The input method is allowed for the active window.
ForwardToIme == IsSome(active_window) /\ Unwrap(active_window) \in ime_allowed

\* C25: an event the input method claims reaches no handler: nothing is
\* delivered and active window, key-repeat slot, modifiers, DnD session,
\* devices, windows and touch contacts stay, and the key code of a modifier
\* key is pushed on the queue of filtered modifiers; a key event is offered
\* to the input method only when it is allowed for the active window.
C25_FilteredRunsNoHandler ==
    [][ FilterStep =>
          LET key == args'[1] = "key"
              filter == args'[2]
              keycode == args'[3]
              q == xfiltered_modifiers
              q1 == IF Len(q) = MAX_MOD_REPLAY_LEN THEN PopBack(q) ELSE q
          IN /\ (filter /\ (key => ForwardToIme))
                => /\ out' = <<>>
                   /\ UNCHANGED <<active_window, held_key_press, modifiers, dndVars,
                                  devices, windows, xkb, num_touch, first_touch>>
                   /\ xfiltered_modifiers' =
                         IF key /\ keycode \in ModifierKeycodes
                         THEN PushFront(q1, keycode) ELSE q
             /\ (key /\ ~ForwardToIme)
                => /\ outcome' \in {"no_window", "replay", "key", "commit", "swallowed"}
                   /\ Len(xfiltered_modifiers') <= Len(q) ]_vars
\* A press of a modifier key was claimed while a drag is in progress and a
\* contact touches: the key code is queued, nothing else changed.
C25_Witness ==
    /\ handled = "KeyPress" /\ args = <<"key", TRUE, 37>>
    /\ xfiltered_modifiers = <<37>> /\ out = <<>>
    /\ IsSome(dnd.version) /\ num_touch = 1 /\ active_window = Some(1)

(***************************************************************************)
(* The queue of filtered modifiers at its capacity                         *)
(***************************************************************************)
\* Most entries of the queue that hold the second modifier key.
MaxSecond == 2
Count(q, x) == Cardinality({ j \in 1..Len(q) : q[j] = x })

\* KeyPress / KeyRelease of a modifier key, with no limit on the length of
\* the queue but the code's.
QueueKey(state, keycode, filter) ==
    /\ ~panicked
    /\ LET xev == [keycode |-> keycode, state |-> 0]
           q == process_event(
                    process_key_xevent(Self, xev, state, filter, TRUE, ""),
                    <<>>, <<>>)
       IN Store(q, IF state = "Pressed" THEN "KeyPress" ELSE "KeyRelease",
                <<"key", filter, keycode>>)

\* The key codes the input method is offered: Control until the queue is
\* one short of full, then Shift as well (at most MaxSecond times in the
\* queue).
QueueKeycodes ==
    IF /\ Len(xfiltered_modifiers) >= MAX_MOD_REPLAY_LEN - 1
       /\ Count(xfiltered_modifiers, 50) < MaxSecond
    THEN {37, 50} ELSE {37}

NextQueue ==
    \/ \E keycode \in QueueKeycodes : QueueKey("Pressed", keycode, TRUE)
    \/ \E keycode \in {37, 50} : QueueKey("Released", keycode, FALSE)
    \/ FilterFocus(1, TRUE, FALSE)
    \/ ImeOtherEvent(<<[request |-> "Allow", window |-> 1, allowed |-> TRUE]>>, <<>>)

SpecQueue == Init /\ [][NextQueue]_vars

\* C26: the queue of filtered modifiers never holds more than 32 entries;
\* a modifier key the input method claims is put at the front, after the
\* entries held before in their order, and when 32 are held the oldest one
\* (at the back) goes.
C26_QueueBounded ==
    [][ /\ Len(xfiltered_modifiers') <= MAX_MOD_REPLAY_LEN
        /\ ( /\ handled' \in {"KeyPress", "KeyRelease"}
             /\ Len(args') = 3 /\ args'[1] = "key"
             /\ args'[2] /\ ForwardToIme /\ args'[3] \in ModifierKeycodes )
           => xfiltered_modifiers' =
                 <<args'[3]>> \o
                 SubSeq(xfiltered_modifiers, 1,
                        IF Len(xfiltered_modifiers) = MAX_MOD_REPLAY_LEN
                        THEN MAX_MOD_REPLAY_LEN - 1
                        ELSE Len(xfiltered_modifiers)) ]_vars
\* Shift was claimed twice while the queue held 31 and then 32 entries.
C26_Witness ==
    /\ Len(xfiltered_modifiers) = MAX_MOD_REPLAY_LEN
    /\ xfiltered_modifiers[1] = 50 /\ xfiltered_modifiers[2] = 50
    /\ xfiltered_modifiers[3] = 37
    /\ handled = "KeyPress" /\ args = <<"key", TRUE, 50>>

(***************************************************************************)
(* with_window and windows their owner dropped                             *)
(***************************************************************************)
\* The owner drops its window: the weak handle in target.windows stays and
\* no longer upgrades.
WindowDropped(id) ==
    /\ ~panicked
    /\ id \in DOMAIN windows /\ windows[id].alive
    /\ Store([Self EXCEPT !.windows[id].alive = FALSE], "drop", <<id>>)

\* self.with_window(id, f) with a callback that answers the window's id;
\* `args` keeps the id and the Option the call returns.
WithWindow(id) ==
    /\ ~panicked
    /\ LET r == with_window(Self, id)
           result == IF r.found THEN Some(id) ELSE None
       IN Store([r.p EXCEPT !.note = IF r.found THEN "called" ELSE "not_called"],
                "with_window", <<id, result>>)

WindowIds == Windows \cup {3}

NextWindow ==
    \/ \E id \in Windows : WindowDropped(id)
    \/ \E id \in WindowIds : WithWindow(id)
    \/ \E phase \in {"XI_TouchBegin", "XI_TouchEnd"} :
          FilterTouch(1, 1, phase, FALSE)
    \/ \E window \in Windows, in \in BOOLEAN : FilterFocus(window, in, FALSE)

SpecWindow == Init /\ [][NextWindow]_vars

Without(f, id) == [w \in DOMAIN f \ {id} |-> f[w]]

\* C27: with_window(id, f) returns Some(f(window)) and leaves the windows
\* as they are when the entry is there and its window alive; returns None
\* and leaves them when there is no entry; returns None without a call of
\* f and removes the entry when the window was dropped.  A touch event for
\* a dropped window likewise removes the entry and delivers nothing.
C27_WithWindow ==
    [][ /\ (handled' = "with_window")
           => LET id == args'[1]
                  result == args'[2]
              IN CASE id \notin DOMAIN windows ->
                        result = None /\ windows' = windows /\ outcome' = "not_called"
                   [] id \in DOMAIN windows /\ windows[id].alive ->
                        result = Some(id) /\ windows' = windows /\ outcome' = "called"
                   [] OTHER ->
                        /\ result = None /\ outcome' = "not_called"
                        /\ windows' = Without(windows, id)
        /\ ( /\ handled' \in {"XI_TouchBegin", "XI_TouchEnd"}
             /\ 1 \in DOMAIN windows /\ ~windows[1].alive )
           => out' = <<>> /\ windows' = Without(windows, 1) ]_vars
\* with_window was called for a dropped window: None, and the entry is gone
\* while the other window's entry stays.
C27_Witness ==
    /\ handled = "with_window" /\ args = <<1, None>>
    /\ DOMAIN windows = {2} /\ outcome = "not_called"

(***************************************************************************)
(* DestroyNotify and the active window                                     *)
(***************************************************************************)
Destroyed(w) == [ev |-> "Destroyed", window |-> w]

\* destroy_notify; `ime_ok` is whether remove_context succeeds.
destroy_notify(p, xev, ime_ok) ==
    LET window == xev.window
        p1 == [p EXCEPT !.windows = Without(@, window)]
    IN IF ~ime_ok
       THEN \* .expect("Failed to destroy input context")
            [p1 EXCEPT !.panicked = TRUE, !.note = "panic"]
       ELSE [Deliver(p1, Destroyed(window)) EXCEPT !.note = "destroyed"]

\* DestroyNotify; the history keeps the windows whose Destroyed was
\* delivered.
DestroyNotify(window, ime_ok) ==
    /\ ~panicked
    /\ LET q == process_event(destroy_notify(Self, [window |-> window], ime_ok),
                              <<>>, <<>>)
       IN /\ Store0(q, "DestroyNotify", <<window>>)
          /\ hist' = IF q.panicked THEN hist
                     ELSE [hist EXCEPT !.gone = @ \cup {window}]
          /\ UNCHANGED <<num_touch, first_touch, events_loop>>

\* The server destroys a window once, and gives the focus to windows that
\* are not destroyed.
NextDestroy ==
    \/ \E window \in Windows \ hist.gone, ime_ok \in BOOLEAN :
          DestroyNotify(window, ime_ok)
    \/ \E window \in Windows \ hist.gone : FilterFocus(window, TRUE, FALSE)
    \/ \E window \in Windows : FilterFocus(window, FALSE, FALSE)
    \/ \E state \in {"Pressed", "Released"}, keycode \in {37, 38} :
          FilterKey(state, keycode, FALSE)

SpecDestroy == Init /\ [][NextDestroy]_vars

\* C37: after the Destroyed event of a window was delivered, no
\* KeyboardInput and no ModifiersChanged is delivered for that window
\* (the active window no longer names it).
C37_NoKeysAfterDestroyed ==
    [][ \A i \in 1..Len(out') :
            out'[i].ev \in {"KeyboardInput", "ModifiersChanged"} =>
                out'[i].window \notin hist.gone
      ]_vars
(***************************************************************************)
(* XI_HierarchyChanged: devices added and removed                          *)
(***************************************************************************)
\* Device::new(info) for a device the server describes.
DeviceNew == [attachment |-> 2, scroll_axes |-> <<>>]
Insert(f, k, v) == [x \in DOMAIN f \cup {k} |-> IF x = k THEN v ELSE f[x]]
RECURSIVE InsertAll(_, _)
InsertAll(f, ids) ==
    IF ids = <<>> THEN f ELSE InsertAll(Insert(f, Head(ids), DeviceNew), Tail(ids))

\* init_device: the devices DeviceInfo::get answers are inserted; `info` is
\* None when the query fails.
init_device(devs, device, info) ==
    IF IsSome(info) THEN InsertAll(devs, Unwrap(info)) ELSE devs

\* One XIHierarchyInfo: the device, its flags, and for an added device what
\* XIQueryDevice answers and, in the older loop, what reading the failed
\* answer (a null pointer with a count the call did not set to a length)
\* does.
HierarchyInfo(deviceid, flags, ok, ub) ==
    [ deviceid |-> deviceid, flags |-> flags,
      query |-> IF ok THEN Some(<<deviceid>>) ELSE None, ub |-> ub ]

\* xinput2_hierarchy_changed
RECURSIVE xinput2_hierarchy_changed(_, _)
xinput2_hierarchy_changed(p, infos) ==
    IF infos = <<>> THEN p
    ELSE LET info == Head(infos)
             p1 == CASE info.flags = "added" ->
                          [p EXCEPT !.devices = init_device(@, info.deviceid, info.query)]
                     [] info.flags = "removed" ->
                          [p EXCEPT !.devices = Without(@, info.deviceid)]
                     [] OTHER -> p
         IN xinput2_hierarchy_changed(p1, Tail(infos))

\* DeviceEvent of the older loop, with whether the device is registered
\* while the callback runs.
DeviceEvent(l, device_id, event) ==
    [ ev |-> "DeviceEvent", device_id |-> device_id, event |-> event,
      registered |-> device_id \in DOMAIN l.devices ]

\* EventsLoop, XI_HierarchyChanged
RECURSIVE loop_hierarchy_changed(_, _, _)
loop_hierarchy_changed(l, infos, events) ==
    IF infos = <<>> THEN [l |-> l, events |-> events, panicked |-> FALSE]
    ELSE LET info == Head(infos)
         IN CASE info.flags = "added" ->
                   IF info.query = None /\ info.ub = "crash"
                   THEN [l |-> l, events |-> events, panicked |-> TRUE]
                   ELSE LET l1 == [l EXCEPT !.devices =
                                       init_device(@, info.deviceid, info.query)]
                        IN loop_hierarchy_changed(
                               l1, Tail(infos),
                               Append(events, DeviceEvent(l1, info.deviceid, "Added")))
              [] info.flags = "removed" ->
                   loop_hierarchy_changed(
                       [l EXCEPT !.devices = Without(@, info.deviceid)], Tail(infos),
                       Append(events, DeviceEvent(l, info.deviceid, "Removed")))
              [] OTHER -> loop_hierarchy_changed(l, Tail(infos), events)

\* The devices flagged so far: those enumerated at construction, plus the
\* added, minus the removed, in the order of the notifications.
RECURSIVE Flagged(_, _)
Flagged(set, infos) ==
    IF infos = <<>> THEN set
    ELSE LET info == Head(infos)
         IN Flagged(CASE info.flags = "added" -> set \cup {info.deviceid}
                      [] info.flags = "removed" -> set \ {info.deviceid}
                      [] OTHER -> set,
                    Tail(infos))

HotplugInfos ==
    { HierarchyInfo(d, f, TRUE, "empty") : d \in {4, 5}, f \in {"added", "removed", "enabled"} }
    \cup { HierarchyInfo(5, "added", FALSE, ub) : ub \in {"crash", "empty"} }
HierarchyEvents ==
    { <<i>> : i \in HotplugInfos }
    \cup { << HierarchyInfo(5, "added", TRUE, "empty"),
              HierarchyInfo(4, "removed", TRUE, "empty") >>,
           << HierarchyInfo(5, "removed", TRUE, "empty"),
              HierarchyInfo(5, "added", TRUE, "empty") >> }

\* GenericEvent, XI_HierarchyChanged
HierarchyChanged(infos) ==
    /\ ~panicked
    /\ LET q == process_event(xinput2_hierarchy_changed(Self, infos), <<>>, <<>>)
       IN /\ Store0(q, "XI_HierarchyChanged", <<infos>>)
          /\ hist' = [hist EXCEPT !.flagged = Flagged(@, infos)]
          /\ UNCHANGED <<num_touch, first_touch, events_loop>>

\* The same event in the older event loop.
LoopHierarchyChanged(infos) ==
    /\ ~panicked
    /\ LET r == loop_hierarchy_changed(events_loop, infos, <<>>)
       IN /\ Store0([Self EXCEPT !.out = r.events, !.panicked = r.panicked,
                                 !.note = IF r.panicked THEN "panic" ELSE "done"],
                    "EventsLoop::XI_HierarchyChanged", <<infos>>)
          /\ events_loop' = r.l
          /\ hist' = [hist EXCEPT !.loop_flagged = Flagged(@, infos)]
          /\ UNCHANGED <<num_touch, first_touch>>

NextHierarchy ==
    \/ \E infos \in HierarchyEvents : HierarchyChanged(infos)
    \/ \E infos \in HierarchyEvents : LoopHierarchyChanged(infos)

SpecHierarchy == Init /\ [][NextHierarchy]_vars

\* The step is an XI_HierarchyChanged event of the older loop.
LoopHierarchyStep == handled' = "EventsLoop::XI_HierarchyChanged" /\ ~panicked'
\* No info of the event adds the device.
OnlyRemoved(infos, d) ==
    \A k \in 1..Len(infos) : infos[k].deviceid = d => infos[k].flags = "removed"

\* C30: after any sequence of hierarchy-changed notifications the registry
\* holds exactly the devices enumerated at construction, plus those flagged
\* added, minus those flagged removed; in the older loop Added is delivered
\* with the device registered and Removed of a registered device while it
\* still is registered.
C30_RegistryFollowsHierarchy ==
    [][ ~panicked' =>
          /\ DOMAIN devices' = hist'.flagged
          /\ DOMAIN events_loop'.devices = hist'.loop_flagged
          /\ LoopHierarchyStep
             => \A j \in 1..Len(out') :
                   LET e == out'[j]
                   IN /\ e.event = "Added" => e.registered
                      /\ ( /\ e.event = "Removed"
                           /\ e.device_id \in DOMAIN events_loop.devices
                           /\ OnlyRemoved(args'[1], e.device_id) )
                         => /\ e.registered
                            /\ e.device_id \notin DOMAIN events_loop'.devices ]_vars

\* Every query of an added device was answered.
AllAnswered(infos) ==
    \A j \in 1..Len(infos) : infos[j].flags = "added" => IsSome(infos[j].query)
\* When the server answers every query, an event leaves both registries
\* with the devices held before, plus the added, minus the removed, and the
\* older loop delivers Added with the device registered.
HierarchyAnsweredFollows ==
    [][ ( /\ handled' \in {"XI_HierarchyChanged", "EventsLoop::XI_HierarchyChanged"}
          /\ AllAnswered(args'[1]) )
        => /\ handled' = "XI_HierarchyChanged"
              => /\ DOMAIN devices' = Flagged(DOMAIN devices, args'[1])
                 /\ out' = <<>>
           /\ handled' = "EventsLoop::XI_HierarchyChanged"
              => /\ DOMAIN events_loop'.devices =
                       Flagged(DOMAIN events_loop.devices, args'[1])
                 /\ \A j \in 1..Len(out') :
                       out'[j].event = "Added" => out'[j].registered ]_vars

(***************************************************************************)
(* EventsLoop::run_forever and EventsLoop::interrupt on two threads        *)
(***************************************************************************)
\* Most events the server holds for the connection.
MaxPending == 2

\* A step of one of the two threads, or of the server: the loop and the
\* history change, nothing is delivered.
LoopThreadStep(l, h, name) ==
    /\ ~panicked
    /\ Store0([Self EXCEPT !.note = l.pc], name, <<>>)
    /\ events_loop' = l
    /\ hist' = h
    /\ UNCHANGED <<num_touch, first_touch>>

\* run_forever is called.
RunForeverCall ==
    /\ events_loop.pc \in {"idle", "returned"}
    /\ LoopThreadStep([events_loop EXCEPT !.pc = "called"],
                      [hist EXCEPT !.issued = "no", !.signalled = "no", !.after = 0],
                      "run_forever")
\* self.interrupted.store(false, Relaxed)
RunForeverReset ==
    /\ events_loop.pc = "called"
    /\ LoopThreadStep([events_loop EXCEPT !.pc = "wait", !.interrupted = FALSE],
                      hist, "run_forever: store")
\* XNextEvent: blocks until the server has an event for the connection.
RunForeverNextEvent ==
    /\ events_loop.pc = "wait" /\ events_loop.pending # <<>>
    /\ LoopThreadStep([events_loop EXCEPT !.pc = "process", !.pending = Tail(@)],
                      [hist EXCEPT !.after = IF hist.signalled # "no"
                                             THEN Cap(@ + 1, 2) ELSE @],
                      "run_forever: XNextEvent")
\* self.process_event(&xev, &mut callback)
RunForeverProcess ==
    /\ events_loop.pc = "process"
    /\ LoopThreadStep([events_loop EXCEPT !.pc = "check"], hist,
                      "run_forever: process_event")
\* if self.interrupted.load(Relaxed) { break; }
RunForeverCheck ==
    /\ events_loop.pc = "check"
    /\ LoopThreadStep([events_loop EXCEPT
                         !.pc = IF events_loop.interrupted THEN "returned" ELSE "wait"],
                      hist, "run_forever: load")

\* interrupt, first statement: self.interrupted.store(true, Relaxed).  The
\* history keeps where run_forever stood: before or after its own store.
InterruptStore ==
    /\ events_loop.ipc = "idle"
    /\ LoopThreadStep([events_loop EXCEPT !.ipc = "send", !.interrupted = TRUE],
                      [hist EXCEPT !.issued =
                          CASE events_loop.pc \in {"idle", "returned"} -> "no"
                            [] events_loop.pc = "called" -> "early"
                            [] OTHER -> "late"],
                      "interrupt: store")
\* interrupt: XSendEvent of the wake-up ClientMessage and XFlush.
InterruptSend ==
    /\ events_loop.ipc = "send"
    /\ Len(events_loop.pending) < MaxPending
    /\ LoopThreadStep([events_loop EXCEPT !.ipc = "idle",
                                          !.pending = Append(@, "wakeup")],
                      [hist EXCEPT !.issued = "no",
                                   !.signalled =
                                      IF events_loop.pc \in {"idle", "returned"}
                                      THEN @
                                      ELSE IF hist.issued = "no" THEN @
                                      ELSE IF @ = "early" \/ hist.issued = "early"
                                           THEN "early" ELSE "late"],
                      "interrupt: XSendEvent")
\* The server queues another event for the connection.
ServerEvent ==
    /\ Len(events_loop.pending) < MaxPending
    /\ LoopThreadStep([events_loop EXCEPT !.pending = Append(@, "event")], hist,
                      "server")

NextLoop ==
    \/ RunForeverCall
    \/ RunForeverReset
    \/ RunForeverNextEvent
    \/ RunForeverProcess
    \/ RunForeverCheck
    \/ InterruptStore
    \/ InterruptSend
    \/ ServerEvent

SpecLoop == Init /\ [][NextLoop]_vars
\* The thread in run_forever goes on whenever it can.
SpecLoopFair ==
    /\ SpecLoop
    /\ WF_vars(RunForeverReset) /\ WF_vars(RunForeverNextEvent)
    /\ WF_vars(RunForeverProcess) /\ WF_vars(RunForeverCheck)

\* run_forever waits in XNextEvent and the server has nothing for it.
Blocked == events_loop.pc = "wait" /\ events_loop.pending = <<>>

\* C28: after an interrupt() issued at any point once run_forever was
\* called, run_forever does not block again and takes no further event
\* after the one it goes on with.
C28_InterruptStopsLoop ==
    hist.signalled # "no" => ~Blocked /\ hist.after <= 1

\* The same when every interrupt() of the call stored after run_forever's
\* own store, and that run_forever then returns.
LateInterruptStopsLoop ==
    hist.signalled = "late" => ~Blocked /\ hist.after <= 1
LateInterruptReturns ==
    (hist.signalled = "late") ~> (events_loop.pc = "returned")

(***************************************************************************)
(* XI_Enter and the stored positions of the scroll axes                    *)
(***************************************************************************)
PointerEntered(w, device_id, position) ==
    [ev |-> "PointerEntered", window |-> w, device_id |-> device_id,
     position |-> position]

\* One XIDeviceInfo of the server's answer: the device, the master it is
\* attached to and the current values of its valuators.
XIDeviceInfo(deviceid, attachment, value) ==
    [ deviceid |-> deviceid, attachment |-> attachment,
      valuators |-> (2 :> value) @@ (3 :> value) ]

\* Device::reset_scroll_position: every scroll axis takes the current value
\* of the valuator with its number.
reset_scroll_position(device, info) ==
    LET axes == device.scroll_axes
        reset(axis) ==
            IF axis[1] \in DOMAIN info.valuators
            THEN <<axis[1], [axis[2] EXCEPT !.position = info.valuators[axis[1]]]>>
            ELSE axis
    IN [ device EXCEPT !.scroll_axes = [ k \in 1..Len(axes) |-> reset(axes[k]) ] ]

\* xinput2_mouse_enter, the loop over the server's devices
RECURSIVE reset_entered_All(_, _, _)
reset_entered_All(devs, sourceid, infos) ==
    IF infos = <<>> THEN devs
    ELSE LET device_info == Head(infos)
             d == device_info.deviceid
             devs1 == IF d \in DOMAIN devs
                      THEN [devs EXCEPT ![d] = reset_scroll_position(@, device_info)]
                      ELSE devs
         IN reset_entered_All(devs1, sourceid, Tail(infos))
RECURSIVE reset_entered(_, _, _)
reset_entered(devs, sourceid, infos) ==
    IF infos = <<>> THEN devs
    ELSE LET device_info == Head(infos)
             d == device_info.deviceid
             devs1 == IF /\ (d = sourceid \/ device_info.attachment = sourceid)
                         /\ d \in DOMAIN devs
                      THEN [devs EXCEPT ![d] = reset_scroll_position(@, device_info)]
                      ELSE devs
         IN reset_entered(devs1, sourceid, Tail(infos))

\* xinput2_mouse_enter.  `all_info` is what DeviceInfo::get answers for all
\* devices, None when the query fails.
xinput2_mouse_enter(p, event, all_info) ==
    LET p1 == IF IsSome(all_info)
              THEN [p EXCEPT !.devices =
                        reset_entered(@, event.sourceid, Unwrap(all_info))]
              ELSE p
        r == with_window(p1, event.event)
    IN IF r.found
       THEN Deliver(r.p, PointerEntered(event.event, Some(event.deviceid),
                                        event.position))
       ELSE [r.p EXCEPT !.note = "no_window"]

\* What the server answers to the query of an XI_Enter event.
EnterInfos ==
    {None}
    \cup { Some(<<XIDeviceInfo(4, a, v)>>) : a \in {2, 3}, v \in {0, 120} }
    \cup { Some(<<XIDeviceInfo(2, 3, 120), XIDeviceInfo(4, 2, 240)>>) }

\* GenericEvent, XI_Enter
PointerEnter(window, sourceid, all_info) ==
    /\ ~panicked
    /\ LET event == [event |-> window, deviceid |-> 2, sourceid |-> sourceid,
                     position |-> 0]
           q == process_event(xinput2_mouse_enter(Self, event, all_info), <<>>, <<>>)
       IN Store(q, "XI_Enter", <<window, sourceid, all_info>>)

\* GenericEvent, XI_Motion, with the sums of the wheel deltas left out of
\* the history.
AxesMotion(window, sourceid, position, valuators) ==
    /\ ~panicked
    /\ LET xev == MotionXev(window, sourceid, position, valuators)
           q == process_event(xinput2_mouse_motion(Self, xev), <<>>, <<>>)
       IN Store(q, "XI_Motion", <<window, sourceid, valuators>>)

NextAxes ==
    \/ \E window \in {1, 3}, sourceid \in {2, 3, 4}, all_info \in EnterInfos :
          PointerEnter(window, sourceid, all_info)
    \/ \E v \in ScrollValues : AxesMotion(1, 4, 0, << <<3, v>> >>)
    \/ PointerLeave(1, XkbUpdate({}, {}, {}, 0, 0, 0))
    \/ \E in \in BOOLEAN : FilterFocus(1, in, FALSE)
    \/ \E phase \in {"XI_TouchBegin", "XI_TouchEnd"} : FilterTouch(1, 1, phase, FALSE)
    \/ \E state \in {"Pressed", "Released"} : FilterKey(state, 38, FALSE)

SpecAxes == Init /\ [][NextAxes]_vars

\* The stored position of every scroll axis of a device.
AxisPositions(device) ==
    [ k \in 1..Len(device.scroll_axes) |-> device.scroll_axes[k][2].position ]
AxesWritten(d) ==
    /\ d \in DOMAIN devices /\ d \in DOMAIN devices'
    /\ AxisPositions(devices'[d]) # AxisPositions(devices[d])

\* C31: the stored position of a scroll axis is written only by the
\* scroll-delta computation of a motion event of its device; every other
\* event (pointer enter and leave, focus, touch, key) leaves it.
C31_AxesWrittenByMotionOnly ==
    [][ \A d \in DOMAIN DevicesNew :
          AxesWritten(d) => handled' = "XI_Motion" /\ args'[2] = d ]_vars

\* C31, with the reset of XI_Enter: the stored position is written only by
\* a motion event of the device, or by a pointer-enter event for which the
\* server lists the device with the event's source as its id or its
\* attachment.
C31_AxesWrittenByMotionOrEnter ==
    [][ \A d \in DOMAIN DevicesNew :
          AxesWritten(d)
            => \/ handled' = "XI_Motion" /\ args'[2] = d
               \/ /\ handled' = "XI_Enter" /\ IsSome(args'[3])
                  /\ \E j \in 1..Len(Unwrap(args'[3])) :
                        LET info == Unwrap(args'[3])[j]
                        IN /\ info.deviceid = d
                           /\ (d = args'[2] \/ info.attachment = args'[2]) ]_vars
\* A pointer-enter event from the master pointer reset the axes of the
\* device attached to it.
C31_Witness ==
    /\ handled = "XI_Enter" /\ args[2] = 2
    /\ args[3] = Some(<<XIDeviceInfo(4, 2, 120)>>)
    /\ AxisPositions(devices[4]) = <<120, 120>>

(***************************************************************************)
(* windows: the file drop handler (IDropTarget)                            *)
(***************************************************************************)
\* The window of the handler.
DropWindow == 1

\* FileDropHandler::DragEnter.  `hdrop` says whether GetData gave file data
\* (iterate_filenames answers Some), `paths` are its file names.  The result
\* is the handler's data, the events sent and the effect written to
\* *pdwEffect.
DragEnter(d, hdrop, paths, position) ==
    LET d1 == [d EXCEPT !.valid = hdrop]
        events == IF d1.valid THEN <<DragEntered(DropWindow, paths, position)>>
                  ELSE <<>>
        d2 == [d1 EXCEPT !.cursor_effect =
                  IF d1.valid THEN DROPEFFECT_COPY ELSE DROPEFFECT_NONE]
    IN [data |-> d2, events |-> events, effect |-> Some(d2.cursor_effect)]

\* FileDropHandler::DragOver
DragOver_Always(d, position) ==
    [ data |-> d, events |-> <<DragMoved(DropWindow, position)>>,
      effect |-> Some(d.cursor_effect) ]
DragOver(d, position) ==
    [ data |-> d,
      events |-> IF d.valid THEN <<DragMoved(DropWindow, position)>> ELSE <<>>,
      effect |-> Some(d.cursor_effect) ]

\* FileDropHandler::DragLeave: no effect is written.
DragLeave(d) ==
    [ data |-> d,
      events |-> IF d.valid THEN <<DragLeft(DropWindow, None)>> ELSE <<>>,
      effect |-> None ]

\* FileDropHandler::Drop: the file names are read again; when GetData fails
\* now, DragDropped carries no path.
Drop(d, hdrop, paths, position) ==
    [ data |-> d,
      events |-> IF d.valid
                 THEN <<DragDropped(DropWindow, IF hdrop THEN paths ELSE <<>>,
                                    position)>>
                 ELSE <<>>,
      effect |-> Some(d.cursor_effect) ]

\* A call of the drop target by OLE: the handler's data, the events and the
\* effect it reports (in `wire`).
DropTargetCall(r, name, a, h) ==
    /\ drop_handler.destroyed = 0 /\ drop_handler.refcount > 0
    /\ drop_handler' = r.data
    /\ out' = r.events
    /\ wire' = IF IsSome(r.effect) THEN <<[effect |-> Unwrap(r.effect)]>> ELSE <<>>
    /\ handled' = name
    /\ outcome' = "done"
    /\ args' = a
    /\ hist' = h
    /\ UNCHANGED <<dndVars, active_window, modifiers, xkb, xfiltered_modifiers,
                   held_key_press, is_composing, ime_allowed, windows, devices,
                   lastDelivered, num_touch, first_touch, events_loop, panic_info,
                   panicked>>

WinDragEnter(hdrop, paths, position) ==
    DropTargetCall(DragEnter(drop_handler, hdrop, paths, position),
                   "DragEnter", <<hdrop, paths, position>>,
                   [hist EXCEPT !.hovered = IF hdrop THEN "valid" ELSE "invalid"])
WinDragOver(position) ==
    DropTargetCall(DragOver(drop_handler, position), "DragOver", <<position>>, hist)
WinDragLeave ==
    DropTargetCall(DragLeave(drop_handler), "DragLeave", <<>>, hist)
WinDrop(hdrop, paths, position) ==
    DropTargetCall(Drop(drop_handler, hdrop, paths, position),
                   "Drop", <<hdrop, paths, position>>, hist)

\* The threads that call AddRef and Release, and the most references
\* in all.
DropThreads == {1, 2}
MaxRefs == 3

\* AddRef: refcount.fetch_add(1, Release) + 1
AddRef(d) ==
    LET count == d.refcount + 1
    IN [data |-> [d EXCEPT !.refcount = d.refcount + 1], count |-> count]
\* Release, up to the comparison: refcount.fetch_sub(1, Release) - 1
Release(d) ==
    LET count == d.refcount - 1
    IN [data |-> [d EXCEPT !.refcount = d.refcount - 1], count |-> count]
\* Release: `if count == 0`, destroy the underlying data
ReleaseDestroys_AtMostOne(count) == count <= 1
ReleaseDestroys(count) == count = 0

\* A step of a thread on the reference count; the count the call returns
\* is kept in `args`.
RefcountStep(d, name, a, h) ==
    /\ drop_handler' = d
    /\ out' = <<>>
    /\ wire' = <<>>
    /\ handled' = name
    /\ outcome' = "done"
    /\ args' = a
    /\ hist' = h
    /\ UNCHANGED <<dndVars, active_window, modifiers, xkb, xfiltered_modifiers,
                   held_key_press, is_composing, ime_allowed, windows, devices,
                   lastDelivered, num_touch, first_touch, events_loop, panic_info,
                   panicked>>

\* Thread t, holding a reference, calls AddRef and gives the new reference
\* to thread `to`.
WinAddRef(t, to) ==
    /\ hist.held[t] > 0 /\ drop_handler.releasing[t] = None
    /\ hist.held[1] + hist.held[2] < MaxRefs
    /\ LET r == AddRef(drop_handler)
       IN RefcountStep(r.data, "AddRef", <<t, r.count>>,
                       [hist EXCEPT !.held[to] = @ + 1])
\* Thread t calls Release for a reference it holds (Drop for
\* FileDropHandler is such a call): the fetch_sub.
WinRelease(t) ==
    /\ hist.held[t] > 0 /\ drop_handler.releasing[t] = None
    /\ LET r == Release(drop_handler)
       IN RefcountStep([r.data EXCEPT !.releasing[t] = Some(r.count)],
                       "Release", <<t, r.count>>,
                       [hist EXCEPT !.held[t] = @ - 1])
\* Thread t goes on in Release: the comparison, and the destruction.
WinReleaseReturn(t) ==
    /\ drop_handler.releasing[t] # None
    /\ LET count == Unwrap(drop_handler.releasing[t])
       IN RefcountStep([drop_handler EXCEPT
                          !.releasing[t] = None,
                          !.destroyed = IF ReleaseDestroys(count) THEN @ + 1 ELSE @],
                       "Release: return", <<t, count>>, hist)

NextDrop ==
    \/ \E t \in DropThreads, to \in DropThreads : WinAddRef(t, to)
    \/ \E t \in DropThreads : WinRelease(t)
    \/ \E t \in DropThreads : WinReleaseReturn(t)
    \/ \E hdrop \in BOOLEAN, paths \in PathLists, position \in Coords :
          WinDragEnter(hdrop, IF hdrop THEN paths ELSE <<>>, position)
    \/ \E position \in Coords : WinDragOver(position)
    \/ WinDragLeave
    \/ \E hdrop \in BOOLEAN, paths \in PathLists, position \in Coords :
          WinDrop(hdrop, IF hdrop THEN paths ELSE <<>>, position)

SpecDrop == Init /\ [][NextDrop]_vars

DropTargetStep == handled' \in {"DragEnter", "DragOver", "DragLeave", "Drop"}
Sent(log, ev) == \E j \in 1..Len(log) : log[j].ev = ev

\* No Release call stands between its fetch_sub and its comparison.
NoReleaseInProgress == \A t \in DropThreads : drop_handler.releasing[t] = None

\* C40: the data starts with reference count 1; AddRef and Release return
\* the count after their update; the data is destroyed once, by the Release
\* call that brought the count to 0, and never while the count is positive,
\* in every interleaving of threads that release only references they hold.
C40_DestroyedOnceAtZero ==
    [][ /\ (handled' = "AddRef")
           => /\ args'[2] = drop_handler.refcount + 1
              /\ args'[2] = drop_handler'.refcount
        /\ (handled' = "Release")
           => /\ args'[2] = drop_handler.refcount - 1
              /\ args'[2] = drop_handler'.refcount
        /\ drop_handler'.refcount = hist'.held[1] + hist'.held[2]
        /\ drop_handler'.destroyed <= 1
        /\ (drop_handler'.destroyed # drop_handler.destroyed)
           => /\ handled' = "Release: return" /\ args'[2] = 0
              /\ drop_handler.refcount = 0
        /\ (drop_handler'.refcount > 0) => drop_handler'.destroyed = 0
        /\ (drop_handler'.refcount = 0 /\ NoReleaseInProgress')
           => drop_handler'.destroyed = 1 ]_vars
\* Two threads released their references one after the other; the second
\* call read 0 and destroyed the data.
C40_Witness ==
    /\ handled = "Release: return" /\ args = <<2, 0>>
    /\ drop_handler.destroyed = 1 /\ drop_handler.refcount = 0
    /\ NoReleaseInProgress
\* C32: the drop handler sends DragLeft, DragMoved and DragDropped only
\* while the hovered item is valid, that is when the latest DragEnter got
\* file data and sent DragEntered; after a DragEnter without file data
\* DragOver, DragLeave and Drop send nothing and report the effect NONE.
C32_DragEventsOnlyWhileValid ==
    [][ DropTargetStep =>
          /\ (handled' = "DragEnter")
                => (Sent(out', "DragEntered") <=> hist'.hovered = "valid")
          /\ (Sent(out', "DragMoved") \/ Sent(out', "DragLeft")
                \/ Sent(out', "DragDropped"))
                => hist.hovered = "valid"
          /\ (handled' # "DragEnter" /\ hist.hovered = "invalid")
                => /\ out' = <<>>
                   /\ \A j \in 1..Len(wire') : wire'[j].effect = DROPEFFECT_NONE ]_vars
\* After a valid item an invalid one entered, and the Drop sent nothing and
\* reported NONE.
C32_Witness ==
    /\ handled = "Drop" /\ hist.hovered = "invalid" /\ args[1]
    /\ out = <<>> /\ wire = <<[effect |-> DROPEFFECT_NONE]>>

(***************************************************************************)
(* appkit: PanicInfo                                                       *)
(***************************************************************************)
\* The payloads of the panics caught, and the most panics caught between
\* two calls of take.
Payloads == {"p1", "p2", "p3"}
MaxPanics == 3

\* Cell::take and Cell::set on PanicInfo::inner
CellTake(inner) == [inner |-> None, result |-> inner]
CellSet(inner, value) == value

\* PanicInfo::is_panicking: the payload is taken out, looked at and put back.
is_panicking(inner) ==
    LET t == CellTake(inner)
        result == IsSome(t.result)
    IN [inner |-> CellSet(t.inner, t.result), result |-> result]

\* PanicInfo::set_panic
set_panic_Overwrite(inner, p) == CellSet(inner, Some(p))
set_panic(inner, p) ==
    LET r == is_panicking(inner)
    IN IF ~r.result THEN CellSet(r.inner, Some(p)) ELSE r.inner

\* PanicInfo::take
take(inner) == CellTake(inner)

\* A call on the PanicInfo of the event loop; what the call returns is kept
\* in `args`.
PanicInfoCall(inner, name, a, h) ==
    /\ panic_info' = inner
    /\ out' = <<>>
    /\ wire' = <<>>
    /\ handled' = name
    /\ outcome' = "done"
    /\ args' = a
    /\ hist' = h
    /\ UNCHANGED <<dndVars, active_window, modifiers, xkb, xfiltered_modifiers,
                   held_key_press, is_composing, ime_allowed, windows, devices,
                   lastDelivered, num_touch, first_touch, events_loop, drop_handler,
                   panicked>>

\* stop_app_on_panic: the closure panicked with payload p.
StopAppOnPanic(p) ==
    /\ Len(hist.panics) < MaxPanics
    /\ PanicInfoCall(set_panic(panic_info, p), "set_panic", <<p>>,
                     [hist EXCEPT !.panics = Append(@, p)])
\* A callback asks whether the application is panicking.
IsPanicking ==
    LET r == is_panicking(panic_info)
    IN PanicInfoCall(r.inner, "is_panicking", <<r.result>>, hist)
\* run_app_on_demand, after self.app.run(): self.panic_info.take().  `args`
\* keeps what take returns and the payloads caught since the last take.
RunAppTake ==
    LET r == take(panic_info)
    IN PanicInfoCall(r.inner, "take", <<r.result, hist.panics>>,
                     [hist EXCEPT !.panics = <<>>])

NextPanic ==
    \/ \E p \in Payloads : StopAppOnPanic(p)
    \/ IsPanicking
    \/ RunAppTake

SpecPanic == Init /\ [][NextPanic]_vars

\* C33: PanicInfo keeps the first panic: take() returns the payload of the
\* first set_panic since the last take() and leaves nothing stored, so the
\* next take() returns None; is_panicking() answers whether a payload is
\* stored and changes nothing.
C33_FirstPanicKept ==
    [][ /\ (handled' = "take")
           => /\ args'[1] = IF hist.panics = <<>> THEN None
                            ELSE Some(Head(hist.panics))
              /\ panic_info' = None
        /\ (handled' = "is_panicking")
           => /\ panic_info' = panic_info
              /\ args'[1] = (hist.panics # <<>>)
        /\ (handled' = "set_panic")
           => panic_info' = IF hist.panics = <<>> THEN Some(args'[1])
                            ELSE panic_info ]_vars
\* After set_panic(p1) and set_panic(p2), take() returned p1.
C33_Witness ==
    /\ handled = "take" /\ args = <<Some("p1"), <<"p1", "p2">>>>
    /\ panic_info = None

(***************************************************************************)
(* The processor with every native event                                   *)
(***************************************************************************)
Next == NextDnd \/ NextKbd

Spec == Init /\ [][Next]_vars

=============================================================================
